---- MODULE Spec2Model ----
(***************************************************************************)
(* Model of the client-side session layer of the aptitude chatbot          *)
(* frontend.                                                               *)
(*                                                                         *)
(* Part 1: the auth store (useAuthStore, lib/stores/auth) with its         *)
(* TokenManager, proactive-refresh timers and the AuthService boundary.    *)
(* The JavaScript event loop is modelled as follows: every action of the   *)
(* model is one macrotask, i.e. a public store action run up to its first  *)
(* network await, the continuation that runs when a network call settles   *)
(* (with the promise reactions that follow it without another network or   *)
(* timer await), or a timer callback.  Network calls in flight are the     *)
(* records of `net`; each remembers the continuation awaiting it.          *)
(* Storage (sessionStorage / localStorage) is written in this part only    *)
(* through TokenManager calls made by the store.  The redirect to /login   *)
(* at the end of logout is an observable effect; the script context is     *)
(* kept (as under the repository's test environment).                      *)
(*                                                                         *)
(* Further parts: the API layer (ApiErrorHandler, RetryHandler,            *)
(* ApiClient), and chat streaming: the ChatStreamingClient of lib/api/sse  *)
(* with the chat store (useChatStore) and the network monitor's events.    *)
(* A stream's awaits (fetch, reader.read) settle in actions of their own.  *)
(* The NetworkMonitor (nm), the read loops of the two stream parsers (ps)  *)
(* and AuthMiddleware.refreshToken are modelled on their own as well.      *)
(***************************************************************************)
EXTENDS Integers, FiniteSets, Sequences, Bags, TLC

\* ------------------------------------------------------------------ bounds
MaxNet == 2        \* network calls in flight at once
MaxArmed == 2      \* timers armed at once (the store's field holds one)
MaxCalls == 3      \* invocations of public store actions by callers
MaxRetries == 2    \* largest maxRetries of the retry configurations drawn
MaxTime == 600     \* last clock value (seconds)
TickStep == 300    \* clock granularity (seconds)
MaxStreams == 3    \* streamChatResponse invocations by callers of the client
MaxAttempts == 5   \* streams the chat store starts
MaxRecs == 3       \* SSE records the server delivers to the client
MaxTurns == 2      \* sendMessage calls on the chat store
MaxListeners == 2  \* listeners registered with the NetworkMonitor
MaxPings == 2      \* liveness probes awaiting their response at once
MaxLines == 2      \* records in a response body
MaxCuts == 2       \* places where a body is cut into read() results
ReadSize == 2      \* most lines one reader.read() completes

\* --------------------------------------------------------------- constants
LookAhead == 300   \* "Refresh 5 minutes before expiration"

NULL == "null"
NoTimer == 0

\* Access tokens are JWT strings; the model names them and gives the result
\* of JSON.parse(atob(token.split('.')[1])).exp for each of them.
AccessTokens == {"a600", "a900", "abad"}
RefreshTokens == {"r1", "r2"}
Users == {"u1"}
Decodable(tok) == tok # "abad"
HasExp(tok) == tok \in {"a300", "a600", "a900"}
ExpOf(tok) == IF tok = "a300" THEN 300 ELSE IF tok = "a600" THEN 600 ELSE 900
\* Access tokens a browser may hold beyond those the server issues here:
\* one already expired at t=300, one whose payload decodes but has no exp
\* claim, one whose exp claim is a non-numeric string.
ExpiryTokens == AccessTokens \cup {"a300", "anoexp", "astrexp"}

NoTokens == [access |-> NULL, refresh |-> NULL]
Pairs == [access : AccessTokens, refresh : RefreshTokens]

VARIABLES
    user, tokens, isAuthenticated, isLoading, error, isRefreshing,
    refreshTimer,      \* fields of the zustand store
    access, refresh,   \* sessionStorage.access_token, localStorage.refresh_token
    armed,             \* timers set with setTimeout and not yet fired or cleared
    net,               \* AuthService calls awaiting the server
    now,               \* Math.floor(Date.now() / 1000)
    calls,             \* invocations of public store actions so far
    ev,                \* observation of the step just taken
    eh,                \* last ApiErrorHandler call: argument and results
    rh,                \* a RetryHandler and its execute() invocation
    api,               \* the ApiClient and its request() invocation
    nm,                \* the NetworkMonitor
    ps,                \* a stream parser and the body it is reading
    sc,                \* the ChatStreamingClient and the streams it started
    chat               \* fields of the chat store (useChatStore)

vars == <<user, tokens, isAuthenticated, isLoading, error, isRefreshing,
          refreshTimer, access, refresh, armed, net, now, calls, ev,
          eh, rh, api, sc, chat, nm, ps>>

\* the API layer underneath the store
clientVars == <<eh, rh, api>>

\* the streaming client, the chat store, the network monitor and the parser
streamVars == <<sc, chat, nm, ps>>

\* The state as one record, so that the synchronous helpers compose.
\* exch / lo / reqs count the refresh exchanges issued, the logout()
\* invocations made and the AuthService calls issued while the current
\* macrotask runs.
Cur ==
    [user |-> user, tokens |-> tokens, isAuthenticated |-> isAuthenticated,
     isLoading |-> isLoading, error |-> error, isRefreshing |-> isRefreshing,
     refreshTimer |-> refreshTimer, access |-> access, refresh |-> refresh,
     armed |-> armed, net |-> net, now |-> now, exch |-> 0, lo |-> 0,
     reqs |-> 0]

\* act: the model action taken; op / res: the public operation whose
\* invocation this step ran and how it stands ("pending" while it awaits);
\* exch / lo / reqs: refresh exchanges issued, logout() invocations made and
\* AuthService calls issued by the step; hadA / hadR: an access / a refresh
\* token was stored when the step began; att: refreshToken() calls made so
\* far by a checkAuth invocation; expired: that invocation found the stored
\* access token expired; tok / rtok / sent: tokens of a refresh exchange;
\* ok: result of the server-side logout call.
NoEv ==
    [act |-> "none", op |-> "none", res |-> "none", err |-> NULL,
     exch |-> 0, lo |-> 0, reqs |-> 0, hadA |-> FALSE, hadR |-> FALSE,
     att |-> 0, expired |-> FALSE,
     tok |-> NULL, rtok |-> NULL, sent |-> NULL, ok |-> TRUE]

\* the public store actions a caller invokes
CallerActs ==
    {"login", "logout", "refreshToken", "checkAuth", "setTokens",
     "startTokenRefreshTimer", "stopTokenRefreshTimer",
     "scheduleTokenRefresh"}

MinOf(S) == CHOOSE x \in S : \A y \in S : x <= y

\* ------------------------------------------------------------ TokenManager
TokenManager_setTokens(s, p) ==
    [s EXCEPT !.access = p.access, !.refresh = p.refresh]

clearTokens(s) == [s EXCEPT !.access = NULL, !.refresh = NULL]

\* variant of getTokens that is satisfied with one of the two entries
getTokensEither(s) ==
    IF s.access # NULL \/ s.refresh # NULL
    THEN [access |-> s.access, refresh |-> s.refresh]
    ELSE NoTokens

getTokens(s) ==
    IF s.access # NULL /\ s.refresh # NULL
    THEN [access |-> s.access, refresh |-> s.refresh]
    ELSE NoTokens

\* tokenRefresh.isTokenExpired: a token whose payload has no exp claim gives
\* `undefined <= currentTime`, which is false.
isTokenExpired(s) ==
    IF s.access = NULL THEN TRUE
    ELSE IF ~Decodable(s.access) THEN TRUE
    ELSE IF ~HasExp(s.access) THEN FALSE
    ELSE ExpOf(s.access) <= s.now

isTokenValid(s) ==
    IF s.access = NULL THEN FALSE ELSE ~isTokenExpired(s)

\* ------------------------------------------------------------------ timers
clearTimeout(s, id) == [s EXCEPT !.armed = {t \in @ : t.id # id}]

FreshTimer(s) ==
    MinOf({i \in 1..(MaxArmed + 2) :
             i # s.refreshTimer /\ \A t \in s.armed : t.id # i})

\* const timer = setTimeout(...); set({ refreshTimer: timer })
setTimeout(s, at) ==
    LET id == FreshTimer(s) IN
    [s EXCEPT !.armed = @ \cup {[id |-> id, at |-> at]}, !.refreshTimer = id]

stopTokenRefreshTimer(s) ==
    IF s.refreshTimer # NoTimer
    THEN [clearTimeout(s, s.refreshTimer) EXCEPT !.refreshTimer = NoTimer]
    ELSE s

\* ----------------------------------------------------------------- network
\* A call awaiting the server: the endpoint, the continuation awaiting it,
\* the refresh token sent (refresh) and whether the checkAuth invocation
\* awaiting it found the access token expired.  `net` is the bag of them.
Request(ep, cont, sent, expired) ==
    [ep |-> ep, cont |-> cont, sent |-> sent, expired |-> expired]

Send(s, ep, cont, sent, expired) ==
    [s EXCEPT !.net = @ (+) SetToBag({Request(ep, cont, sent, expired)}),
              !.reqs = @ + 1]

Pending(n) == BagToSet(n)

\* number of calls to endpoint ep awaiting the server
InFlight(n, ep) ==
    LET S == {r \in BagToSet(n) : r.ep = ep}
    IN  BagCardinality([r \in S |-> n[r]])

\* ------------------------------------------------------------------ logout
\* logout() up to `await AuthService.logout()`
logout(s, cont) ==
    LET s1 == stopTokenRefreshTimer(s) IN
    [Send(s1, "logout", cont, NULL, FALSE) EXCEPT !.lo = @ + 1]

\* variant of logoutTail that leaves the storage entries in place
logoutTailKeepsStorage(s) ==
    [s EXCEPT
        !.user = NULL, !.tokens = NoTokens, !.isAuthenticated = FALSE,
        !.isLoading = FALSE, !.error = NULL, !.isRefreshing = FALSE,
        !.refreshTimer = NoTimer]

\* logout() after the await: the same in the try and in the catch branch
logoutTail(s) ==
    [clearTokens(s) EXCEPT
        !.user = NULL, !.tokens = NoTokens, !.isAuthenticated = FALSE,
        !.isLoading = FALSE, !.error = NULL, !.isRefreshing = FALSE,
        !.refreshTimer = NoTimer]

\* ------------------------------------------------------------ refreshToken
\* variant of refreshToken without the isRefreshing guard
refreshTokenNoGuard(s, cont, expired) ==
    IF s.refresh = NULL THEN [s |-> logout(s, "none"), r |-> "notoken"]
    ELSE [s |-> [Send([s EXCEPT !.isRefreshing = TRUE],
                      "refresh", cont, s.refresh, expired)
                 EXCEPT !.exch = @ + 1],
          r |-> "pending"]

\* variant of refreshToken without the check for a stored refresh token
refreshTokenNoCheck(s, cont, expired) ==
    IF s.isRefreshing THEN [s |-> s, r |-> "joined"]
    ELSE [s |-> [Send([s EXCEPT !.isRefreshing = TRUE],
                      "refresh", cont, s.refresh, expired)
                 EXCEPT !.exch = @ + 1],
          r |-> "pending"]

\* refreshToken() up to `await AuthService.refreshToken(refreshToken)`.
\* r = "joined": returned at the isRefreshing guard; "notoken": threw after
\* calling logout(); "pending": the exchange was issued.
refreshToken(s, cont, expired) ==
    IF s.isRefreshing THEN [s |-> s, r |-> "joined"]
    ELSE IF s.refresh = NULL THEN [s |-> logout(s, "none"), r |-> "notoken"]
    ELSE [s |-> [Send([s EXCEPT !.isRefreshing = TRUE],
                      "refresh", cont, s.refresh, expired)
                 EXCEPT !.exch = @ + 1],
          r |-> "pending"]

\* get().refreshToken().catch(() => { get().logout(); })
proactiveRefresh(s) ==
    LET r == refreshToken(s, "proactive", FALSE) IN
    IF r.r = "notoken" THEN logout(r.s, "none") ELSE r.s

scheduleTokenRefresh(s) ==
    LET s1 == IF s.refreshTimer # NoTimer
              THEN clearTimeout(s, s.refreshTimer) ELSE s
    IN  IF s1.access = NULL THEN s1
        ELSE IF ~Decodable(s1.access) THEN proactiveRefresh(s1)
        ELSE IF ~HasExp(s1.access) THEN setTimeout(s1, s1.now)
        ELSE IF ExpOf(s1.access) - s1.now - LookAhead <= 0
             THEN proactiveRefresh(s1)
        ELSE setTimeout(s1, ExpOf(s1.access) - LookAhead)

\* variant of startTokenRefreshTimer that never schedules
startTokenRefreshTimerNoSchedule(s) ==
    IF s.refreshTimer # NoTimer THEN clearTimeout(s, s.refreshTimer) ELSE s

startTokenRefreshTimer(s) ==
    LET s1 == IF s.refreshTimer # NoTimer
              THEN clearTimeout(s, s.refreshTimer) ELSE s
    IN  IF ~s1.isAuthenticated \/ s1.access = NULL THEN s1
        ELSE scheduleTokenRefresh(s1)

\* variant of refreshOk that falls back to the refresh token now in storage
refreshOkStoredFallback(s, sent, atok, rtok) ==
    LET newTokens == [access |-> atok,
                      refresh |-> IF rtok # NULL THEN rtok ELSE s.refresh]
        s1 == TokenManager_setTokens(s, newTokens)
        s2 == [s1 EXCEPT !.tokens = newTokens, !.isRefreshing = FALSE,
                         !.error = NULL]
    IN  scheduleTokenRefresh(s2)

\* refreshToken() after the await, try branch
refreshOk(s, sent, atok, rtok) ==
    LET newTokens == [access |-> atok,
                      refresh |-> IF rtok # NULL THEN rtok ELSE sent]
        s1 == TokenManager_setTokens(s, newTokens)
        s2 == [s1 EXCEPT !.tokens = newTokens, !.isRefreshing = FALSE,
                         !.error = NULL]
    IN  scheduleTokenRefresh(s2)

\* refreshToken() after the await, catch branch (before `throw error`)
refreshFail(s) == logout([s EXCEPT !.isRefreshing = FALSE], "none")

setTokens(s, p) ==
    LET s1 == TokenManager_setTokens(s, p) IN
    startTokenRefreshTimer([s1 EXCEPT !.tokens = p, !.isAuthenticated = TRUE])

\* ------------------------------------------------------------- commit step
Commit(s, e) ==
    /\ BagCardinality(s.net) <= MaxNet
    /\ Cardinality(s.armed) <= MaxArmed
    /\ user' = s.user
    /\ tokens' = s.tokens
    /\ isAuthenticated' = s.isAuthenticated
    /\ isLoading' = s.isLoading
    /\ error' = s.error
    /\ isRefreshing' = s.isRefreshing
    /\ refreshTimer' = s.refreshTimer
    /\ access' = s.access
    /\ refresh' = s.refresh
    /\ armed' = s.armed
    /\ net' = s.net
    /\ now' = s.now
    /\ calls' = IF e.act \in CallerActs THEN calls + 1 ELSE calls
    /\ UNCHANGED <<clientVars, streamVars>>
    /\ ev' = [e EXCEPT !.exch = s.exch, !.lo = s.lo, !.reqs = s.reqs,
                       !.hadA = (access # NULL), !.hadR = (refresh # NULL)]

Ev(act, op, res, err) ==
    [NoEv EXCEPT !.act = act, !.op = op, !.res = res, !.err = err]

\* --------------------------------------------------------- ApiErrorHandler
\* What axios rejects with: no `response` at all (network layer), or a
\* response with a status and a body (code / field / message may be absent).
Statuses == {400, 401, 403, 404, 422, 500, 502, 503}

AxiosErrors ==
    [response : {FALSE}, status : {0}, code : {NULL}, field : {NULL},
     message : {NULL, "m"}]
    \cup [response : {TRUE}, status : Statuses, code : {NULL, "E_CODE"},
          field : {NULL, "email"}, message : {NULL, "m"}]

\* A value that can be thrown.  cls names its shape; `response` is the
\* status under error.response (0 when the value has no response property).
NoError ==
    [cls |-> "none", isNetworkError |-> FALSE, retryable |-> FALSE,
     isAuthError |-> FALSE, requiresLogin |-> FALSE,
     isValidationError |-> FALSE, field |-> NULL, code |-> NULL,
     statusCode |-> 0, response |-> 0]

HttpCode(status) ==
    CASE status = 400 -> "HTTP_400" [] status = 401 -> "HTTP_401"
      [] status = 403 -> "HTTP_403" [] status = 404 -> "HTTP_404"
      [] status = 422 -> "HTTP_422" [] status = 500 -> "HTTP_500"
      [] status = 502 -> "HTTP_502" [] status = 503 -> "HTTP_503"
      [] OTHER -> "HTTP_0"

\* the error object axios itself rejects with, untouched
RawAxiosError(e) ==
    [NoError EXCEPT !.cls = "AxiosError",
                    !.response = IF e.response THEN e.status ELSE 0]

\* new Error(message)
PlainError == [NoError EXCEPT !.cls = "Error"]

\* ApiErrorHandler.createError
createError(e) ==
    IF ~e.response
    THEN [NoError EXCEPT !.cls = "NetworkError", !.isNetworkError = TRUE,
                         !.retryable = TRUE]
    ELSE IF e.status = 401 \/ e.status = 403
    THEN [NoError EXCEPT !.cls = "AuthError", !.isAuthError = TRUE,
                         !.requiresLogin = (e.status = 401),
                         !.statusCode = e.status]
    ELSE IF e.status = 400
    THEN [NoError EXCEPT !.cls = "ValidationError",
                         !.isValidationError = TRUE, !.field = e.field,
                         !.statusCode = 400]
    ELSE [NoError EXCEPT !.cls = "ApiError",
                         !.code = IF e.code # NULL THEN e.code
                                  ELSE HttpCode(e.status)]

\* variant of isRetryableError that reads the status from statusCode
isRetryableErrorByStatusCode(err) ==
    IF err.isNetworkError THEN err.retryable
    ELSE err.statusCode >= 400

\* ApiErrorHandler.isRetryableError
isRetryableError(err) ==
    IF err.isNetworkError THEN err.retryable
    ELSE IF err.isAuthError THEN FALSE
    ELSE IF err.isValidationError THEN FALSE
    ELSE err.response >= 500 /\ err.response < 600

EhIdle ==
    [in |-> [response |-> FALSE, status |-> 0, code |-> NULL, field |-> NULL,
             message |-> NULL],
     out |-> NoError, asked |-> "none"]

\* ------------------------------------------------------------ RetryHandler
DEFAULT_RETRY_CONFIG ==
    [maxRetries |-> 3, baseDelay |-> 1000, maxDelay |-> 10000,
     backoffFactor |-> 2]

RetryConfigs ==
    [maxRetries : 0..MaxRetries, baseDelay : {500, 1000},
     maxDelay : {1500, 10000}, backoffFactor : {1, 2}]

\* Math.random() * 1000, a value in [0, 1000)
Jitters == {0, 500, 999}

\* shouldRetry arguments: the default `() => true`, `() => false`, and the
\* one ApiClient.request passes
Policies == {"always", "never", "isRetryableError"}

RECURSIVE Pow(_, _)
Pow(b, n) == IF n = 0 THEN 1 ELSE b * Pow(b, n - 1)

NoThrown == [n |-> -1, err |-> NoError]
NoResult == -1

\* pc: where execute() stands; attempt: the loop variable; runs: times the
\* operation was invoked; sleeps / slept: sleeps started and the length of
\* the last one (ms); lastError / thrown: errors tagged with the attempt
\* that raised them; result: the attempt whose value was returned;
\* stopRuns: value of runs when an attempt first succeeded or failed with
\* an error shouldRetry refuses (0 before that).
RhIdle(cfg, policy) ==
    [cfg |-> cfg, policy |-> policy, pc |-> "idle", attempt |-> 0,
     runs |-> 0, sleeps |-> 0, slept |-> 0, lastError |-> NoThrown,
     thrown |-> NoThrown, result |-> NoResult, stopRuns |-> 0]

shouldRetry(policy, err) ==
    CASE policy = "always" -> TRUE
      [] policy = "never" -> FALSE
      [] OTHER -> isRetryableError(err)

\* the loop head, line 28, and `throw lastError` after the loop, line 52
rhLoop(r) ==
    IF r.attempt <= r.cfg.maxRetries
    THEN [r EXCEPT !.pc = "awaiting", !.runs = @ + 1]
    ELSE [r EXCEPT !.pc = "thrown", !.thrown = r.lastError]

\* execute() up to the first `await operation()`
rhExecute(r) == rhLoop([RhIdle(r.cfg, r.policy) EXCEPT !.pc = "running"])

\* variant of mustThrow that gives up one attempt early
mustThrowEarly(r, err) ==
    r.attempt + 1 >= r.cfg.maxRetries \/ ~shouldRetry(r.policy, err)

\* variant of mustThrow that does not consult shouldRetry
mustThrowIgnoresPolicy(r, err) == r.attempt = r.cfg.maxRetries

\* line 35
mustThrow(r, err) ==
    r.attempt = r.cfg.maxRetries \/ ~shouldRetry(r.policy, err)

\* variant of retryDelay without the cap
retryDelayNoCap(cfg, attempt) ==
    cfg.baseDelay * Pow(cfg.backoffFactor, attempt)

\* lines 40-43
retryDelay(cfg, attempt) ==
    MinOf({cfg.baseDelay * Pow(cfg.backoffFactor, attempt), cfg.maxDelay})

\* `return await operation()` when the operation resolved
rhResolve(r) == [r EXCEPT !.pc = "returned", !.result = r.attempt]

\* the catch block, lines 31-48, up to `await this.sleep(...)`
rhReject(r, err, jitter) ==
    LET r1 == [r EXCEPT !.lastError = [n |-> r.attempt, err |-> err]] IN
    IF mustThrow(r, err)
    THEN [r1 EXCEPT !.pc = "thrown", !.thrown = r1.lastError]
    ELSE [r1 EXCEPT !.pc = "sleeping", !.sleeps = @ + 1,
                    !.slept = retryDelay(r.cfg, r.attempt) + jitter]

\* the sleep is over: attempt++ and the loop head again
rhWake(r) == rhLoop([r EXCEPT !.attempt = @ + 1])

\* records the first attempt after which execute() has to stop
rhStopMark(r, stops) ==
    IF stops /\ r.stopRuns = 0 THEN r.runs ELSE r.stopRuns

\* ---------------------------------------------------------------- ApiClient
\* pc: where request() stands ("wire": the call is with the server;
\* "refresh": the response interceptor awaits the refresh POST; "replay":
\* the replayed call is with the server; "waiting": RetryHandler sleeps);
\* url / retries: the endpoint called and the option's value; via: whether
\* RetryHandler is used (retries > 0); retry: originalRequest._retry of the attempt under way;
\* hdr: token in the Authorization header of the request just sent;
\* tokenRefreshPromise: a refresh is pending; sends / refreshes: requests
\* sent for the call and refresh POSTs made, by this request(); attRefreshes
\* / attReplays: the same for the attempt under way; step: what the last
\* step did; failed: what axios rejected the last attempt with; newTok: the
\* access token the last refresh returned; error: what request() rejected
\* with; redirected: window.location.href was set to /login;
\* refreshFailed, sendsAtFail, refreshesAtFail: a refresh triggered by a
\* 401 failed, and the counters at that moment.
NoAxiosError ==
    [response |-> FALSE, status |-> 0, code |-> NULL, field |-> NULL,
     message |-> NULL]

ApiIdle ==
    [pc |-> "idle", url |-> "other", retries |-> 1, via |-> TRUE,
     retry |-> FALSE,
     hdr |-> NULL, tokenRefreshPromise |-> FALSE, sends |-> 0,
     refreshes |-> 0, attRefreshes |-> 0, attReplays |-> 0,
     step |-> "none", failed |-> NoAxiosError, newTok |-> NULL,
     error |-> NoError, redirected |-> FALSE, refreshFailed |-> FALSE,
     sendsAtFail |-> 0, refreshesAtFail |-> 0]

\* '/api/auth/login', '/api/auth/refresh', any other path
Urls == {"login", "refresh", "other"}

\* The client layer as one record: k.api, k.rh and the two storage entries.
\* request interceptor (lines 31-38) and the request leaving
apiSend(k, step) ==
    [k EXCEPT !.api.pc = "wire", !.api.hdr = k.access,
              !.api.sends = @ + 1, !.api.retry = FALSE,
              !.api.attRefreshes = 0, !.api.attReplays = 0,
              !.api.step = step]

\* the operation given to RetryHandler (or run directly) rejected with err
opReject(k, err, jitter) ==
    IF k.api.via
    THEN LET r == rhReject(k.rh, err, jitter) IN
         [k EXCEPT !.rh = r,
                   !.api.pc = IF r.pc = "sleeping" THEN "waiting" ELSE "done",
                   !.api.error = IF r.pc = "sleeping" THEN NoError ELSE err]
    ELSE [k EXCEPT !.api.pc = "done", !.api.error = err]

\* the operation resolved with response.data
opResolve(k) ==
    [k EXCEPT !.rh = IF k.api.via THEN rhResolve(k.rh) ELSE k.rh,
              !.api.pc = "done", !.api.error = NoError]

\* handleAuthFailure, lines 120-126
handleAuthFailure(k) == [clearTokens(k) EXCEPT !.api.redirected = TRUE]

\* variant of needsRefresh that does not look at the _retry mark
needsRefreshUnmarked(a, e) == e.response /\ e.status = 401

\* line 49
needsRefresh(a, e) == e.response /\ e.status = 401 /\ ~a.retry

markRefreshFailed(k) ==
    [k EXCEPT !.api.refreshFailed = TRUE, !.api.sendsAtFail = k.api.sends,
              !.api.refreshesAtFail = k.api.refreshes]

\* response interceptor, error branch (lines 45-67), up to its first await
\* on the network or to the rejection of the operation
respondError(k, e, jitter) ==
    LET k0 == [k EXCEPT !.api.failed = e] IN
    IF needsRefresh(k0.api, e)
    THEN LET k1 == [k0 EXCEPT !.api.retry = TRUE] IN
         IF k1.refresh = NULL
         THEN opReject(handleAuthFailure(markRefreshFailed(
                          [k1 EXCEPT !.api.step = "refreshFail"])),
                       PlainError, jitter)
         ELSE [k1 EXCEPT !.api.pc = "refresh",
                         !.api.tokenRefreshPromise = TRUE,
                         !.api.refreshes = @ + 1,
                         !.api.attRefreshes = @ + 1,
                         !.api.step = "refreshStart"]
    ELSE opReject([k0 EXCEPT !.api.step = "fail"], createError(e), jitter)

\* performTokenRefresh after its POST resolved (lines 107-112), then the
\* interceptor's replay (lines 54-58)
performTokenRefreshOk(k, atok, rtok) ==
    LET k1 == TokenManager_setTokens(k,
                 [access |-> atok,
                  refresh |-> IF rtok # NULL THEN rtok ELSE k.refresh])
        k2 == [k1 EXCEPT !.api.tokenRefreshPromise = FALSE,
                         !.api.newTok = atok]
    IN  [k2 EXCEPT !.api.pc = "replay", !.api.hdr = k2.access,
                   !.api.sends = @ + 1, !.api.attReplays = @ + 1,
                   !.api.step = "refreshOk"]

\* performTokenRefresh after its POST failed (lines 113-117), then the
\* interceptor's catch (lines 59-63)
performTokenRefreshFail(k, e, jitter) ==
    LET k1 == [clearTokens(k) EXCEPT !.api.tokenRefreshPromise = FALSE,
                                     !.api.step = "refreshFail"]
    IN  opReject(handleAuthFailure(markRefreshFailed(k1)),
                 RawAxiosError(e), jitter)

\* ------------------------------------ ChatStreamingClient (lib/api/sse.ts)
\* Every streamChatResponse invocation is a stream record, appended to the
\* client's streams in the order of the calls; the client's
\* abortController field holds the number of the stream whose controller it
\* references, 0 for null.  currentStream is never assigned and stays null.
\* An SSE record is one complete line of the response body.
Records == {"chunkA", "chunkB", "complete", "error", "malformed", "DONE"}

\* what the server or the transport fails a stream with
StreamErrors == {"http400", "http401", "http403", "http500", "network"}

NoStream ==
    [pc |-> "none", cb |-> "plain", req |-> 0, aborted |-> FALSE,
     fullContent |-> <<>>, hist |-> <<>>, completes |-> 0, errors |-> 0]


ScIdle ==
    [abortController |-> 0, n |-> 0, recs |-> 0, op |-> "none",
     streams |-> <<>>]

\* the chat store as created (part_004 lines 88-98); msgs holds the content
\* of the assistant message of each turn, streamingMessage the turn whose
\* message is streaming (0 for null), timers the retry timers pending per
\* turn, attempts the streams started per turn, lost whether the turn was
\* stopped because the network went offline and still is, msgStreaming the
\* turns whose assistant message in the conversation has isStreaming true
\* (createMessage('', 'assistant', true), line 142)
ChatIdle ==
    [isStreaming |-> FALSE, error |-> NULL, streamingMessage |-> 0,
     connectionStatus |-> "disconnected", networkStatus |-> NULL,
     retryAttempts |-> 0, maxRetryAttempts |-> 3, turns |-> 0,
     msgs |-> [i \in 1..MaxTurns |-> <<>>],
     timers |-> [i \in 1..MaxTurns |-> 0],
     attempts |-> [i \in 1..MaxTurns |-> 0], lost |-> FALSE,
     msgStreaming |-> {}]

\* error strings of the chat store
NetLostStreaming == "network: streaming interrupted"   \* line 469
NetLost == "network: connection lost"                  \* line 442
NetworkErrors == {NetLostStreaming, NetLost}           \* includes('네트워크')

\* updateStreamingMessage(content), lines 511-545
updateStreamingMessage(c, content) ==
    IF c.streamingMessage = 0 THEN c
    ELSE [c EXCEPT !.msgs[c.streamingMessage] = content]

\* completeStreamingMessage(metadata), lines 548-587
completeStreamingMessage(c) ==
    IF c.streamingMessage = 0 THEN c
    ELSE [c EXCEPT !.streamingMessage = 0, !.isStreaming = FALSE,
                   !.connectionStatus = "disconnected",
                   !.msgStreaming = @ \ {c.streamingMessage}]

\* setStreamingError(error), lines 590-597
setStreamingError(c, msg) ==
    [c EXCEPT !.error = msg, !.isStreaming = FALSE, !.streamingMessage = 0,
              !.connectionStatus = "error"]

\* the condition of the store's onError callback, lines 201-202
shouldRetryTurn(c) ==
    c.retryAttempts < c.maxRetryAttempts /\ c.networkStatus # "offline"

\* the callbacks passed to the client: the store's (part_004 lines 187-219)
\* or a caller's own, which only observe
cbChunk(k, id, content) ==
    LET full == k.sc.streams[id].fullContent \o <<content>>
        k1 == [k EXCEPT !.sc.streams[id].fullContent = full]
    IN  IF k.sc.streams[id].cb = "store"
        THEN [k1 EXCEPT !.chat = updateStreamingMessage(@, full)]
        ELSE k1

cbComplete(k, id) ==
    LET k1 == [k EXCEPT !.sc.streams[id].completes = @ + 1]
    IN  IF k.sc.streams[id].cb = "store"
        THEN [k1 EXCEPT !.chat =
                 [completeStreamingMessage(@) EXCEPT !.retryAttempts = 0]]
        ELSE k1

cbError(k, id, err) ==
    LET k1 == [k EXCEPT !.sc.streams[id].errors = @ + 1]
        req == k.sc.streams[id].req
    IN  IF k.sc.streams[id].cb = "store"
        THEN IF shouldRetryTurn(k.chat)
             THEN [k1 EXCEPT !.chat.retryAttempts = @ + 1,
                             !.chat.timers[req] = @ + 1]
             ELSE [k1 EXCEPT !.chat = setStreamingError(@, err)]
        ELSE k1

cbConnectionChange(k, id, status) ==
    IF k.sc.streams[id].cb = "store"
    THEN [k EXCEPT !.chat.connectionStatus = status]
    ELSE k

\* client.stopStreaming(), sse.ts lines 336-346: the awaits of the aborted
\* stream reject with an AbortError
scStopStreaming(k) ==
    LET a == k.sc.abortController
    IN  IF a = 0 THEN k
        ELSE [k EXCEPT !.sc.abortController = 0,
                       !.sc.streams[a].aborted =
                           k.sc.streams[a].pc \in {"fetch", "read"},
                       !.sc.streams[a].pc =
                           IF @ \in {"fetch", "read"} THEN "aborted" ELSE @]

\* client.streamChatResponse up to its await of fetch, lines 226-257
scStreamChatResponse(k, cb, req) ==
    LET k1 == scStopStreaming(k)
        id == k1.sc.n + 1
        k2 == [k1 EXCEPT !.sc.n = id, !.sc.abortController = id,
                         !.sc.streams =
                             Append(@, [NoStream EXCEPT !.pc = "fetch",
                                                        !.cb = cb,
                                                        !.req = req])]
    IN  cbConnectionChange(k2, id, "connecting")

\* the outer finally, lines 330-333
scFinally(k, id) ==
    [cbConnectionChange(k, id, "disconnected")
        EXCEPT !.sc.abortController = 0, !.sc.streams[id].pc = "closed"]

\* the outer catch, lines 321-329, then the finally
scCatchWithoutNameCheck(k, id, err) ==
    scFinally(cbError(cbConnectionChange(k, id, "error"), id, err), id)

scCatch(k, id, err) ==
    LET k1 == cbConnectionChange(k, id, "error")
    IN  IF err = "AbortError" THEN scFinally(k1, id)
        ELSE scFinally(cbError(k1, id, err), id)

\* what one line of the body does, lines 284-313: "done" calls onComplete
\* and returns, "chunk" calls onChunk, "final" calls onChunk and onComplete
\* and returns, "skip" goes on with the next line.  The Error thrown for a
\* record of type error at line 308 is thrown inside the try whose catch at
\* line 310 logs it, as it logs what JSON.parse throws.
lineEffectSentinelIgnored(r) ==
    CASE r \in {"chunkA", "chunkB"} -> "chunk"
      [] r = "complete" -> "final"
      [] OTHER -> "skip"

lineEffectMalformedEnds(r) ==
    CASE r \in {"DONE", "malformed"} -> "done"
      [] r \in {"chunkA", "chunkB"} -> "chunk"
      [] r = "complete" -> "final"
      [] OTHER -> "skip"

lineEffect(r) ==
    CASE r = "DONE" -> "done"
      [] r \in {"chunkA", "chunkB"} -> "chunk"
      [] r = "complete" -> "final"
      [] r = "error" -> "skip"
      [] OTHER -> "skip"

ContentOf(r) ==
    CASE r = "chunkA" -> "A" [] r = "chunkB" -> "B" [] r = "complete" -> "C"
      [] r = "error" -> "E" [] OTHER -> ""

\* the for loop over the lines of one read, lines 284-314
RECURSIVE processLines(_, _, _)
processLines(k, id, lines) ==
    IF lines = <<>> THEN k
    ELSE LET r == Head(lines)
             eff == lineEffect(r)
         IN  CASE eff = "done" -> scFinally(cbComplete(k, id), id)
               [] eff = "chunk" ->
                    processLines(cbChunk(k, id, ContentOf(r)), id,
                                 Tail(lines))
               [] eff = "final" ->
                    scFinally(cbComplete(cbChunk(k, id, ContentOf(r)), id),
                              id)
               [] OTHER -> processLines(k, id, Tail(lines))

\* ------------------------------------------------- chat store (part_004)
\* the store's streamChatResponse(request), lines 177-225
storeStreamChatResponse(k, turn) ==
    [scStreamChatResponse(k, "store", turn)
        EXCEPT !.chat.attempts[turn] = @ + 1]

\* sendMessage(message) when it does not throw, lines 101-159
sendMessage(k) ==
    LET turn == k.chat.turns + 1
        k1 == [k EXCEPT !.chat.turns = turn, !.chat.error = NULL,
                        !.chat.lost = FALSE,
                        !.chat.retryAttempts = 0,
                        !.chat.msgs[turn] = <<>>,
                        !.chat.msgStreaming = @ \cup {turn},
                        !.chat.streamingMessage = turn,
                        !.chat.isStreaming = TRUE,
                        !.chat.connectionStatus = "connecting"]
    IN  storeStreamChatResponse(k1, turn)

\* the store's stopStreaming(), lines 418-428
storeStopStreamingCounting(k) ==
    [scStopStreaming(k) EXCEPT !.chat.isStreaming = FALSE,
                               !.chat.streamingMessage = 0,
                               !.chat.connectionStatus = "disconnected",
                               !.chat.retryAttempts = @ + 1]

storeStopStreaming(k) ==
    [scStopStreaming(k) EXCEPT !.chat.isStreaming = FALSE,
                               !.chat.streamingMessage = 0,
                               !.chat.connectionStatus = "disconnected",
                               !.chat.retryAttempts = 0]

\* handleNetworkStatusChange(status), lines 462-478
handleNetworkStatusChange(k, status) ==
    LET k1 == [k EXCEPT !.chat.networkStatus = status,
                        !.chat.lost = @ /\ status = "offline"]
        k2 == IF status = "offline" /\ k1.chat.isStreaming
              THEN [storeStopStreaming(k1)
                       EXCEPT !.chat.error = NetLostStreaming,
                              !.chat.connectionStatus = "error",
                              !.chat.lost = TRUE]
              ELSE k1
    IN  IF status = "online" /\ k2.chat.error \in NetworkErrors
        THEN [k2 EXCEPT !.chat.error = NULL]
        ELSE k2

\* NetworkMonitor.updateStatus, part_006 lines 120-135, with the store's
\* handler as onStatusChange
updateStatus(k, status) ==
    IF k.chat.networkStatus # status
    THEN handleNetworkStatusChange(k, status)
    ELSE k

\* the onOffline and onOnline options of the monitor, lines 439-450
onOffline(k) ==
    [k EXCEPT !.chat.connectionStatus = "error", !.chat.error = NetLost]

onOnline(k) ==
    IF k.chat.error \in NetworkErrors THEN [k EXCEPT !.chat.error = NULL]
    ELSE k

\* ----------------------------------------------------------- NetworkMonitor
\* NetworkStatus, part_006 lines 78-89: isOnline, effectiveType and rtt;
\* connectionType and downlink are carried like effectiveType.
NetStatuses ==
    [isOnline : BOOLEAN, effectiveType : {"unknown", "4g"}, rtt : {0, 50}]

\* measured round-trip times, Date.now() - startTime
Rtts == {0, 20, 50, 200}

\* status: this.status; hasCb: an onStatusChange option was given (the
\* chat store's handler, which returns normally); listeners: this.listeners
\* in insertion order; pings: probes awaiting their response; old: the
\* status before the last step; notes: the callees notified by the last
\* step in call order (0 for onStatusChange); hook: the onOnline /
\* onOffline option the last step called.
NmNew(st, cb) ==
    [status |-> st, hasCb |-> cb, listeners |-> <<>>, pings |-> 0,
     old |-> st, notes |-> <<>>, hook |-> "none"]

\* networkMonitorInstance before getNetworkMonitor() made one, line 252
NmIdle == <<>>

\* JSON.stringify of a status: the fields in the order of its keys, which
\* the spread in updateStatus keeps
JSONstringify(st) == <<st.isOnline, st.effectiveType, st.rtt>>

\* { ...this.status, ...updates }
Merge(st, updates) ==
    [f \in DOMAIN st |-> IF f \in DOMAIN updates THEN updates[f] ELSE st[f]]

Callees(m) == (IF m.hasCb THEN <<0>> ELSE <<>>) \o m.listeners

\* variant of updateStatus that notifies after every update
nmUpdateStatusAlways(m, updates) ==
    [m EXCEPT !.status = Merge(m.status, updates),
              !.notes = @ \o Callees(m)]

\* updateStatus(updates), part_006 lines 120-135; a listener that throws is
\* caught and the next one is called
nmUpdateStatus(m, updates) ==
    LET new == Merge(m.status, updates) IN
    [m EXCEPT !.status = new,
              !.notes = IF JSONstringify(m.status) # JSONstringify(new)
                        THEN @ \o Callees(m) ELSE @]

\* the monitor when a handler starts
NmBase == [nm EXCEPT !.old = nm.status, !.notes = <<>>, !.hook = "none"]

\* Math.min(rtt, this.status.rtt || rtt)
MinRtt(rtt, cur) ==
    LET other == IF cur # 0 THEN cur ELSE rtt
    IN  IF rtt <= other THEN rtt ELSE other

\* ---------------------------------------------------------- stream parsers
\* The read loops of ChatStreamingClient.streamChatResponse (sse.ts lines
\* 273-320, "sse") and of parseStreamingResponse (chat.ts lines 43-81,
\* "chat").  A body is a sequence of bytes: "d" stands for the prefix
\* 'data: ', "s" for a space, "n" for the newline, "D" for [DONE], "x" for
\* text that is no JSON, and "c1" "c2" are the two bytes of one multi-byte
\* character "c", which stands for the JSON of a chunk.
\* pc: "reading" while the loop runs, "returned" after a return inside it,
\* "closed" after read() reported done; body / cuts: the bytes the server
\* sends and the places where read() results end; reads: the results not
\* yet read; pending: bytes the TextDecoder holds back; buffer: the
\* loop's buffer; events: the callbacks made, or the values yielded.
PsNew ==
    [pc |-> "reading", which |-> "sse", body |-> <<>>, cuts |-> {},
     reads |-> <<>>, pending |-> <<>>, buffer |-> <<>>, events |-> <<>>]

\* no response body is being read
PsIdle == <<>>

\* the records a server sends, as bytes: a chunk, the sentinel, a data
\* line that is no JSON, an indented chunk, an empty line
RecordKinds ==
    {<<"d", "c1", "c2", "n">>, <<"d", "D", "n">>, <<"d", "x", "n">>,
     <<"s", "d", "c1", "c2", "n">>, <<"n">>}

RECURSIVE Flatten(_)
Flatten(rs) == IF rs = <<>> THEN <<>> ELSE Head(rs) \o Flatten(Tail(rs))

\* bodies of up to MaxLines records; the last newline may be missing
Bodies ==
    LET whole == {Flatten(rs) :
                    rs \in UNION {[1..n -> RecordKinds] : n \in 1..MaxLines}}
    IN  whole \cup {SubSeq(b, 1, Len(b) - 1) : b \in whole}

\* the read() results of body b cut after the positions in C
RECURSIVE Pieces(_, _, _)
Pieces(b, C, start) ==
    LET later == {c \in C : c >= start} IN
    IF later = {} THEN <<SubSeq(b, start, Len(b))>>
    ELSE <<SubSeq(b, start, MinOf(later))>> \o Pieces(b, C, MinOf(later) + 1)

\* decoder.decode(value, { stream: true }): an incomplete character is
\* held back until its second byte arrives; an invalid sequence decodes
\* to U+FFFD ("?")
RECURSIVE Decode(_, _)
Decode(pending, bytes) ==
    IF bytes = <<>> THEN [out |-> <<>>, pending |-> pending]
    ELSE LET b == Head(bytes)
             now1 == IF pending # <<>>
                     THEN (IF b = "c2" THEN <<"c">>
                           ELSE IF b = "c1" THEN <<"?">>
                           ELSE <<"?", b>>)
                     ELSE (IF b = "c1" THEN <<>>
                           ELSE IF b = "c2" THEN <<"?">>
                           ELSE <<b>>)
             rest == Decode(IF b = "c1" THEN <<"c1">> ELSE <<>>, Tail(bytes))
         IN  [out |-> now1 \o rest.out, pending |-> rest.pending]

\* buffer.split('\n') and lines.pop(): the complete lines and what follows
\* the last newline
RECURSIVE SplitLines(_, _, _)
SplitLines(chars, cur, lines) ==
    IF chars = <<>> THEN [lines |-> lines, rest |-> cur]
    ELSE IF Head(chars) = "n"
         THEN SplitLines(Tail(chars), <<>>, Append(lines, cur))
         ELSE SplitLines(Tail(chars), Append(cur, Head(chars)), lines)

\* String.prototype.trim
RECURSIVE TrimLeft(_)
TrimLeft(l) ==
    IF l # <<>> /\ Head(l) = "s" THEN TrimLeft(Tail(l)) ELSE l

RECURSIVE TrimRight(_)
TrimRight(l) ==
    IF l # <<>> /\ l[Len(l)] = "s" THEN TrimRight(SubSeq(l, 1, Len(l) - 1))
    ELSE l

Trim(l) == TrimRight(TrimLeft(l))

\* JSON.parse(data) succeeds: white space around the value is allowed
ParsesAsChunk(data) == Trim(data) = <<"c">>

\* the body of `for (const line of lines)`: sse.ts lines 287-313,
\* chat.ts lines 61-76
psLine(p, line) ==
    IF p.which = "sse"
    THEN IF Trim(line) = <<>> \/ Head(line) # "d" THEN p
         ELSE IF Tail(line) = <<"D">>
              THEN [p EXCEPT !.events = Append(@, "complete"),
                             !.pc = "returned"]
         ELSE IF ParsesAsChunk(Tail(line))
              THEN [p EXCEPT !.events = Append(@, "chunk")]
         ELSE p
    ELSE LET trimmedLine == Trim(line) IN
         IF trimmedLine = <<>> \/ Head(trimmedLine) # "d" THEN p
         ELSE IF Tail(trimmedLine) = <<"D">> THEN [p EXCEPT !.pc = "returned"]
         ELSE IF ParsesAsChunk(Tail(trimmedLine))
              THEN [p EXCEPT !.events = Append(@, "yield")]
         ELSE p

RECURSIVE psLines(_, _)
psLines(p, lines) ==
    IF lines = <<>> THEN p
    ELSE LET q == psLine(p, Head(lines)) IN
         IF q.pc = "returned" THEN q ELSE psLines(q, Tail(lines))

\* variant of psRead that starts every read() result with an empty buffer
psReadNoCarry(p, bytes) ==
    LET d == Decode(p.pending, bytes)
        sp == SplitLines(d.out, <<>>, <<>>)
    IN  psLines([p EXCEPT !.pending = d.pending, !.buffer = sp.rest],
                sp.lines)

\* one round of the loop with a read() result: sse.ts lines 278-314,
\* chat.ts lines 53-77
psRead(p, bytes) ==
    LET d == Decode(p.pending, bytes)
        sp == SplitLines(p.buffer \o d.out, <<>>, <<>>)
    IN  psLines([p EXCEPT !.pending = d.pending, !.buffer = sp.rest],
                sp.lines)

\* read() reports done: sse.ts lines 280 and 317, chat.ts line 51
psDone(p) ==
    IF p.pc # "reading" THEN p
    ELSE [p EXCEPT !.pc = "closed",
                   !.events = IF p.which = "sse" THEN Append(@, "complete")
                              ELSE @]

\* the parser about to read body b cut at C
psStart(which, b, C) ==
    [PsNew EXCEPT !.which = which, !.body = b, !.cuts = C,
                  !.reads = Pieces(b, C, 1)]

\* -------------------------------------------------------------------- Init
\* The store as created; storage holds whatever an earlier page load left
\* (TokenManager.setTokens and clearTokens write both entries together);
\* the persist middleware restores `user` only.
Init ==
    /\ user \in Users \cup {NULL}
    /\ tokens = NoTokens
    /\ isAuthenticated = FALSE
    /\ isLoading = FALSE
    /\ error = NULL
    /\ isRefreshing = FALSE
    /\ refreshTimer = NoTimer
    /\ \E p \in Pairs \cup {NoTokens} :
          /\ access \in {p.access, NULL}
          /\ refresh = p.refresh
    /\ armed = {}
    /\ net = EmptyBag
    /\ now = 0
    /\ calls = 0
    /\ ev = NoEv
    /\ eh = EhIdle /\ rh = RhIdle(DEFAULT_RETRY_CONFIG, "always")
    /\ api = ApiIdle /\ sc = ScIdle /\ chat = ChatIdle
    /\ nm = NmIdle /\ ps = PsIdle

\* ------------------------------------------------------- caller operations
\* refreshToken(), lines 195-210
RefreshTokenCall ==
    /\ calls < MaxCalls
    /\ LET r == refreshToken(Cur, "caller", FALSE) IN
       Commit(r.s,
              IF r.r = "joined"
              THEN Ev("refreshToken", "refreshToken", "resolved", NULL)
              ELSE IF r.r = "notoken"
                   THEN Ev("refreshToken", "refreshToken", "rejected",
                           "NoRefreshToken")
              ELSE Ev("refreshToken", "refreshToken", "pending", NULL))

\* logout(), lines 167-172
LogoutCall ==
    /\ calls < MaxCalls
    /\ Commit(logout(Cur, "caller"), Ev("logout", "logout", "pending", NULL))

\* login(), lines 130-134
LoginCall ==
    /\ calls < MaxCalls
    /\ Commit(Send([Cur EXCEPT !.isLoading = TRUE, !.error = NULL],
                   "login", "caller", NULL, FALSE),
              Ev("login", "login", "pending", NULL))

\* checkAuth() after getCurrentUser() resolved, lines 262-271 / 278-285
checkAuthDone(s, u) ==
    startTokenRefreshTimer(
        [s EXCEPT !.user = u, !.tokens = getTokens(s),
                  !.isAuthenticated = TRUE, !.isLoading = FALSE,
                  !.error = NULL])

CaEv(act, res, err, att, expired) ==
    [Ev(act, "checkAuth", res, err) EXCEPT !.att = att, !.expired = expired]

\* checkAuth(), lines 237-260
CheckAuthCall ==
    /\ calls < MaxCalls
    /\ LET s0 == [Cur EXCEPT !.isLoading = TRUE] IN
       IF getTokens(s0) = NoTokens
       THEN Commit([s0 EXCEPT !.isLoading = FALSE, !.isAuthenticated = FALSE],
                   CaEv("checkAuth", "resolved", NULL, 0, FALSE))
       ELSE IF ~isTokenValid(s0)
       THEN LET r == refreshToken(s0, "ca1", TRUE) IN
            IF r.r = "joined"
            THEN Commit(Send(r.s, "me", "me1", NULL, TRUE),
                        CaEv("checkAuth", "pending", NULL, 1, TRUE))
            ELSE IF r.r = "notoken"
            THEN Commit([r.s EXCEPT !.isLoading = FALSE,
                                    !.isAuthenticated = FALSE],
                        CaEv("checkAuth", "resolved", "NoRefreshToken", 1, TRUE))
            ELSE Commit(r.s, CaEv("checkAuth", "pending", NULL, 1, TRUE))
       ELSE Commit(Send(s0, "me", "me1", NULL, FALSE),
                   CaEv("checkAuth", "pending", NULL, 0, FALSE))

\* setTokens(tokens), lines 298-302
SetTokensCall ==
    /\ calls < MaxCalls
    /\ \E p \in Pairs :
          Commit(setTokens(Cur, p),
                 Ev("setTokens", "setTokens", "resolved", NULL))

StartTokenRefreshTimerCall ==
    /\ calls < MaxCalls
    /\ Commit(startTokenRefreshTimer(Cur),
              Ev("startTokenRefreshTimer", "startTokenRefreshTimer",
                 "resolved", NULL))

StopTokenRefreshTimerCall ==
    /\ calls < MaxCalls
    /\ Commit(stopTokenRefreshTimer(Cur),
              Ev("stopTokenRefreshTimer", "stopTokenRefreshTimer",
                 "resolved", NULL))

ScheduleTokenRefreshCall ==
    /\ calls < MaxCalls
    /\ Commit(scheduleTokenRefresh(Cur),
              Ev("scheduleTokenRefresh", "scheduleTokenRefresh",
                 "resolved", NULL))

\* ------------------------------------------------- continuations and timers
Drop(s, r) == [s EXCEPT !.net = @ (-) SetToBag({r})]

\* AuthService.login settles: lines 135-149 or 150-163
LoginResolve ==
    \E r \in Pending(net) :
        /\ r.ep = "login"
        /\ \/ \E u \in Users, p \in Pairs :
                LET s1 == TokenManager_setTokens(Drop(Cur, r), p)
                    s2 == [s1 EXCEPT !.user = u, !.tokens = p,
                                     !.isAuthenticated = TRUE,
                                     !.isLoading = FALSE, !.error = NULL]
                IN  Commit(startTokenRefreshTimer(s2),
                           [Ev("LoginOk", "login", "resolved", NULL)
                            EXCEPT !.tok = p.access, !.rtok = p.refresh])
           \/ Commit([Drop(Cur, r) EXCEPT
                         !.user = NULL, !.tokens = NoTokens,
                         !.isAuthenticated = FALSE, !.isLoading = FALSE,
                         !.error = "Login failed"],
                     Ev("LoginFail", "login", "rejected", "Login failed"))

\* AuthService.logout settles: lines 173-191
LogoutResolve ==
    \E r \in Pending(net), ok \in BOOLEAN :
        /\ r.ep = "logout"
        /\ Commit(logoutTail(Drop(Cur, r)),
                  [Ev("LogoutDone",
                      IF r.cont = "caller" THEN "logout" ELSE "forcedLogout",
                      "resolved", NULL)
                   EXCEPT !.ok = ok])

\* What runs after refreshToken() resolved in the invocation awaiting it.
AfterRefreshOk(s, r, atok, rtok) ==
    LET e == [NoEv EXCEPT !.act = "RefreshOk", !.tok = atok, !.rtok = rtok,
                          !.sent = r.sent]
    IN  IF r.cont = "caller"
        THEN Commit(s, [e EXCEPT !.op = "refreshToken", !.res = "resolved"])
        ELSE IF r.cont = "proactive"
        THEN Commit(s, [e EXCEPT !.op = "proactive", !.res = "resolved"])
        ELSE IF r.cont = "ca1"
        THEN Commit(Send(s, "me", "me1", NULL, TRUE),
                    [e EXCEPT !.op = "checkAuth", !.res = "pending",
                              !.att = 1, !.expired = TRUE])
        ELSE Commit(Send(s, "me", "me2", NULL, r.expired),
                    [e EXCEPT !.op = "checkAuth", !.res = "pending",
                              !.att = IF r.expired THEN 2 ELSE 1,
                              !.expired = r.expired])

\* What runs after refreshToken() rejected in the invocation awaiting it.
AfterRefreshFail(s, r) ==
    LET e == [NoEv EXCEPT !.act = "RefreshFail", !.err = "RefreshFailed",
                          !.sent = r.sent]
    IN  IF r.cont = "caller"
        THEN Commit(s, [e EXCEPT !.op = "refreshToken", !.res = "rejected"])
        ELSE IF r.cont = "proactive"
        THEN Commit(logout(s, "none"),
                    [e EXCEPT !.op = "proactive", !.res = "rejected"])
        ELSE IF r.cont = "ca1"
        THEN Commit([s EXCEPT !.isLoading = FALSE, !.isAuthenticated = FALSE],
                    [e EXCEPT !.op = "checkAuth", !.res = "resolved",
                              !.att = 1, !.expired = TRUE])
        ELSE Commit(logout(s, "none"),
                    [e EXCEPT !.op = "checkAuth", !.res = "resolved",
                              !.att = IF r.expired THEN 2 ELSE 1,
                              !.expired = r.expired])

\* AuthService.refreshToken settles: lines 213-227 or 228-233
RefreshResolve ==
    \E r \in Pending(net) :
        /\ r.ep = "refresh"
        /\ \/ \E atok \in AccessTokens, rtok \in RefreshTokens \cup {NULL} :
                AfterRefreshOk(refreshOk(Drop(Cur, r), r.sent, atok, rtok),
                               r, atok, rtok)
           \/ AfterRefreshFail(refreshFail(Drop(Cur, r)), r)

\* AuthService.getCurrentUser settles inside checkAuth: lines 260-289
MeResolve ==
    \E r \in Pending(net) :
        /\ r.ep = "me"
        /\ LET s == Drop(Cur, r)
               att == IF r.cont = "me1"
                      THEN (IF r.expired THEN 1 ELSE 0)
                      ELSE (IF r.expired THEN 2 ELSE 1)
           IN
           \/ \E u \in Users :
                Commit(checkAuthDone(s, u),
                       CaEv("MeOk", "resolved", NULL, att, r.expired))
           \/ IF r.cont = "me1"
              THEN LET rr == refreshToken(s, "ca2", r.expired) IN
                   IF rr.r = "joined"
                   THEN Commit(Send(rr.s, "me", "me2", NULL, r.expired),
                               CaEv("MeFail", "pending", NULL, att + 1,
                                    r.expired))
                   ELSE IF rr.r = "notoken"
                   THEN Commit(logout(rr.s, "none"),
                               CaEv("MeFail", "resolved", "NoRefreshToken",
                                    att + 1, r.expired))
                   ELSE Commit(rr.s,
                               CaEv("MeFail", "pending", NULL, att + 1,
                                    r.expired))
              ELSE Commit(logout(s, "none"),
                          CaEv("MeFail", "resolved", "MeFailed", att,
                               r.expired))

\* the callback given to setTimeout in scheduleTokenRefresh, lines 373-379
TimerFire ==
    \E t \in armed :
        /\ t.at <= now
        /\ Commit(proactiveRefresh([Cur EXCEPT !.armed = @ \ {t}]),
                  Ev("TimerFire", "proactive", "pending", NULL))

Tick ==
    /\ now < MaxTime
    /\ now' = IF now + TickStep <= MaxTime THEN now + TickStep ELSE MaxTime
    /\ ev' = Ev("tick", "none", "none", NULL)
    /\ UNCHANGED <<user, tokens, isAuthenticated, isLoading, error,
                   isRefreshing, refreshTimer, access, refresh, armed, net,
                   calls>>
    /\ UNCHANGED <<clientVars, streamVars>>

Env == LoginResolve \/ LogoutResolve \/ RefreshResolve \/ MeResolve
          \/ TimerFire \/ Tick

Next ==
    \/ LoginCall \/ LogoutCall \/ RefreshTokenCall \/ CheckAuthCall
    \/ SetTokensCall
    \/ StartTokenRefreshTimerCall \/ StopTokenRefreshTimerCall
    \/ ScheduleTokenRefreshCall
    \/ LoginResolve \/ LogoutResolve \/ RefreshResolve \/ MeResolve
    \/ TimerFire \/ Tick

Spec == Init /\ [][Next]_vars

\* Callers that only invoke refreshToken().
NextRefresh ==
    RefreshTokenCall \/ RefreshResolve \/ LogoutResolve \/ TimerFire \/ Tick

SpecRefresh == Init /\ [][NextRefresh]_vars

\* Callers that log in, log out, set tokens and refresh.
NextSession ==
    \/ LoginCall \/ LogoutCall \/ SetTokensCall \/ RefreshTokenCall
    \/ LoginResolve \/ LogoutResolve \/ RefreshResolve \/ TimerFire \/ Tick

SpecSession == Init /\ [][NextSession]_vars

\* One refreshToken() and, while its exchange is in flight, one logout().
RefreshFirst == calls = 0 /\ RefreshTokenCall

LogoutDuringRefresh ==
    calls = 1 /\ InFlight(net, "refresh") = 1 /\ LogoutCall

NextLogoutRace ==
    \/ RefreshFirst \/ LogoutDuringRefresh
    \/ RefreshResolve \/ LogoutResolve \/ TimerFire \/ Tick

SpecLogoutRace == Init /\ [][NextLogoutRace]_vars

\* Callers that bootstrap with checkAuth() and log out.
NextCheckAuth ==
    \/ CheckAuthCall \/ LogoutCall
    \/ MeResolve \/ LogoutResolve \/ RefreshResolve \/ TimerFire \/ Tick

SpecCheckAuth == Init /\ [][NextCheckAuth]_vars

\* One checkAuth() at page load and no further caller action.
CheckAuthOnce == calls = 0 /\ CheckAuthCall

NextBootstrap ==
    \/ CheckAuthOnce \/ MeResolve \/ RefreshResolve \/ LogoutResolve
    \/ TimerFire \/ Tick

SpecBootstrap == Init /\ [][NextBootstrap]_vars

\* tokenRefresh.isTokenExpired() read by a caller
IsTokenExpiredCall ==
    /\ ev' = Ev("isTokenExpired", "isTokenExpired",
                IF isTokenExpired(Cur) THEN "true" ELSE "false", NULL)
    /\ UNCHANGED <<user, tokens, isAuthenticated, isLoading, error,
                   isRefreshing, refreshTimer, access, refresh, armed, net,
                   now, calls>>
    /\ UNCHANGED <<clientVars, streamVars>>

\* TokenManager.isTokenValid() read by a caller
IsTokenValidCall ==
    /\ ev' = Ev("isTokenValid", "isTokenValid",
                IF isTokenValid(Cur) THEN "true" ELSE "false", NULL)
    /\ UNCHANGED <<user, tokens, isAuthenticated, isLoading, error,
                   isRefreshing, refreshTimer, access, refresh, armed, net,
                   now, calls>>
    /\ UNCHANGED <<clientVars, streamVars>>

\* The store freshly constructed over any storage content.
InitExpiry ==
    /\ user \in Users \cup {NULL}
    /\ tokens = NoTokens
    /\ isAuthenticated = FALSE /\ isLoading = FALSE /\ error = NULL
    /\ isRefreshing = FALSE /\ refreshTimer = NoTimer
    /\ access \in ExpiryTokens \cup {NULL}
    /\ refresh \in RefreshTokens \cup {NULL}
    /\ armed = {} /\ net = EmptyBag /\ now = 0 /\ calls = 0 /\ ev = NoEv
    /\ eh = EhIdle /\ rh = RhIdle(DEFAULT_RETRY_CONFIG, "always")
    /\ api = ApiIdle /\ sc = ScIdle /\ chat = ChatIdle
    /\ nm = NmIdle /\ ps = PsIdle

NextExpiry == IsTokenExpiredCall \/ IsTokenValidCall \/ Tick

SpecExpiry == InitExpiry /\ [][NextExpiry]_vars

\* One login and no further caller action; timers that are due fire and
\* the clock advances.
LoginOnce == calls = 0 /\ LoginCall

NextProactive ==
    \/ LoginOnce \/ LoginResolve \/ RefreshResolve \/ LogoutResolve
    \/ TimerFire \/ Tick

SpecProactive ==
    Init /\ [][NextProactive]_vars /\ WF_vars(TimerFire) /\ WF_vars(Tick)

\* ------------------------------------------------- ApiErrorHandler, alone
authVars == <<user, tokens, isAuthenticated, isLoading, error, isRefreshing,
              refreshTimer, access, refresh, armed, net, now, calls, ev>>

InitClient ==
    /\ user = NULL /\ tokens = NoTokens
    /\ isAuthenticated = FALSE /\ isLoading = FALSE /\ error = NULL
    /\ isRefreshing = FALSE /\ refreshTimer = NoTimer
    /\ armed = {} /\ net = EmptyBag /\ now = 0 /\ calls = 0 /\ ev = NoEv

\* ApiErrorHandler.createError(error) called with what axios rejected with
CreateErrorCall ==
    /\ \E e \in AxiosErrors :
          eh' = [in |-> e, out |-> createError(e), asked |-> "none"]
    /\ UNCHANGED <<authVars, streamVars, rh, api>>

\* ApiErrorHandler.isRetryableError called with the error just created
IsRetryableErrorCall ==
    /\ eh.out # NoError
    /\ eh' = [eh EXCEPT !.asked = IF isRetryableError(eh.out)
                                  THEN "true" ELSE "false"]
    /\ UNCHANGED <<authVars, streamVars, rh, api>>

InitErrors ==
    /\ InitClient /\ access = NULL /\ refresh = NULL
    /\ eh = EhIdle /\ rh = RhIdle(DEFAULT_RETRY_CONFIG, "always")
    /\ api = ApiIdle /\ sc = ScIdle /\ chat = ChatIdle
    /\ nm = NmIdle /\ ps = PsIdle

NextErrors == CreateErrorCall \/ IsRetryableErrorCall

SpecErrors == InitErrors /\ [][NextErrors]_vars

\* ---------------------------------------------------- RetryHandler, alone
\* what the operation given to execute() may reject with
OperationErrors ==
    {createError(e) : e \in {x \in AxiosErrors :
                                /\ x.code = NULL /\ x.field = NULL
                                /\ x.message = NULL
                                /\ x.status \in {0, 401, 500}}}
    \cup {PlainError}

\* retryHandler.execute(operation, shouldRetry)
ExecuteCall ==
    /\ rh.pc = "idle"
    /\ rh' = rhExecute(rh)
    /\ UNCHANGED <<authVars, streamVars, eh, api>>

OperationResolve ==
    /\ rh.pc = "awaiting"
    /\ rh' = [rhResolve(rh) EXCEPT !.stopRuns = rhStopMark(rh, TRUE)]
    /\ UNCHANGED <<authVars, streamVars, eh, api>>

OperationReject ==
    /\ rh.pc = "awaiting"
    /\ \E err \in OperationErrors, j \in Jitters :
          rh' = [rhReject(rh, err, j) EXCEPT
                    !.stopRuns = rhStopMark(rh, ~shouldRetry(rh.policy, err))]
    /\ UNCHANGED <<authVars, streamVars, eh, api>>

\* the timer of sleep() fires
SleepDone ==
    /\ rh.pc = "sleeping"
    /\ rh' = rhWake(rh)
    /\ UNCHANGED <<authVars, streamVars, eh, api>>

InitRetry ==
    /\ InitClient /\ access = NULL /\ refresh = NULL
    /\ eh = EhIdle /\ api = ApiIdle /\ sc = ScIdle /\ chat = ChatIdle
    /\ nm = NmIdle /\ ps = PsIdle
    /\ \E cfg \in RetryConfigs, policy \in Policies :
          rh = RhIdle(cfg, policy)

NextRetry ==
    ExecuteCall \/ OperationResolve \/ OperationReject \/ SleepDone

\* The operation's promise settles and timers fire.
SpecRetry ==
    /\ InitRetry /\ [][NextRetry]_vars
    /\ WF_vars(OperationResolve \/ OperationReject)
    /\ WF_vars(SleepDone) /\ WF_vars(ExecuteCall)

\* ----------------------------------------------------------- ApiClient, alone
Client == [api |-> api, rh |-> rh, access |-> access, refresh |-> refresh]

CommitClient(k) ==
    /\ api' = k.api /\ rh' = k.rh
    /\ access' = k.access /\ refresh' = k.refresh
    /\ UNCHANGED <<user, tokens, isAuthenticated, isLoading, error,
                   isRefreshing, refreshTimer, armed, net, now, calls, ev,
                   eh, streamVars>>

\* what the server answers a call with when it does not answer 2xx
WireErrors ==
    {e \in AxiosErrors : /\ e.code = NULL /\ e.field = NULL
                         /\ e.message = NULL
                         /\ e.status \in {0, 400, 401, 404, 503}}

\* what the refresh POST fails with
RefreshErrors == {e \in WireErrors : e.status \in {0, 401, 503}}

\* apiClient.request(url, options), lines 128-166
RequestCall ==
    /\ api.pc = "idle"
    /\ \E url \in Urls, retries \in 0..MaxRetries :
          LET via == retries > 0
              k == [Client EXCEPT !.api = [ApiIdle EXCEPT !.url = url,
                                                         !.retries = retries,
                                                         !.via = via],
                                  !.rh = IF via THEN rhExecute(rh) ELSE rh]
          IN  CommitClient(apiSend(k, "send"))

\* the server answers the call, or the replayed call
WireRespond ==
    /\ api.pc \in {"wire", "replay"}
    /\ \/ CommitClient(opResolve([Client EXCEPT !.api.step = "ok"]))
       \/ \E e \in WireErrors, j \in Jitters :
             CommitClient(respondError(Client, e, j))

\* the server answers the refresh POST
RefreshRespond ==
    /\ api.pc = "refresh"
    /\ \/ \E atok \in {"a900"}, rtok \in {"r2", NULL} :
             CommitClient(performTokenRefreshOk(Client, atok, rtok))
       \/ \E e \in RefreshErrors, j \in Jitters :
             CommitClient(performTokenRefreshFail(Client, e, j))

\* RetryHandler's sleep is over: the operation is invoked again
RetryWake ==
    /\ api.pc = "waiting" /\ rh.pc = "sleeping"
    /\ CommitClient(apiSend([Client EXCEPT !.rh = rhWake(rh)], "resend"))

InitApi ==
    /\ InitClient
    /\ access \in AccessTokens \cup {NULL}
    /\ refresh \in RefreshTokens \cup {NULL}
    /\ eh = EhIdle /\ api = ApiIdle /\ sc = ScIdle /\ chat = ChatIdle
    /\ nm = NmIdle /\ ps = PsIdle
    /\ \E n \in 1..MaxRetries :
          rh = RhIdle([DEFAULT_RETRY_CONFIG EXCEPT !.maxRetries = n],
                      "isRetryableError")

NextApi == RequestCall \/ WireRespond \/ RefreshRespond \/ RetryWake

SpecApi == InitApi /\ [][NextApi]_vars

\* AuthMiddleware.refreshToken(), part_003 lines 43-62: refreshPromise is
\* non-null exactly while its exchange awaits the server
MiddlewareRefreshCall ==
    /\ InFlight(net, "mwrefresh") = 0
    /\ IF refresh = NULL
       THEN Commit(Cur, Ev("middlewareRefresh", "middleware", "rejected",
                           "NoRefreshToken"))
       ELSE Commit(Send(Cur, "mwrefresh", "middleware", refresh, FALSE),
                   Ev("middlewareRefresh", "middleware", "pending", NULL))

\* AuthMiddleware.performRefresh settles, part_003 lines 67-80
MiddlewareRefreshResolve ==
    \E r \in Pending(net) :
        /\ r.ep = "mwrefresh"
        /\ \/ \E atok \in AccessTokens, rtok \in RefreshTokens \cup {NULL} :
                Commit(TokenManager_setTokens(Drop(Cur, r),
                          [access |-> atok,
                           refresh |-> IF rtok # NULL THEN rtok ELSE r.sent]),
                       [Ev("MiddlewareOk", "middleware", "resolved", NULL)
                           EXCEPT !.tok = atok, !.rtok = rtok,
                                  !.sent = r.sent])
           \/ Commit(clearTokens(Drop(Cur, r)),
                     [Ev("MiddlewareFail", "middleware", "rejected",
                         "RefreshFailed") EXCEPT !.sent = r.sent])

\* The three refreshers of the client side by side: the store's
\* refreshToken(), the ApiClient's 401 interceptor, AuthMiddleware.
\* The store is asked once, AuthMiddleware right after it and the
\* ApiClient after that; the page holds a refresh token and no access token.
MiddlewareAfterStore == ev.act = "refreshToken" /\ MiddlewareRefreshCall

RequestAfterMiddleware == ev.act = "middlewareRefresh" /\ RequestCall

InitRefreshers ==
    /\ InitApi
    /\ access = NULL /\ refresh = "r1"
    /\ rh.cfg.maxRetries = 1

NextRefreshers ==
    \/ RefreshFirst \/ RefreshResolve \/ LogoutResolve
    \/ MiddlewareAfterStore \/ MiddlewareRefreshResolve
    \/ RequestAfterMiddleware \/ WireRespond \/ RefreshRespond \/ RetryWake

SpecRefreshers == InitRefreshers /\ [][NextRefreshers]_vars

\* ------------------------------------------- ChatStreamingClient, alone
Streaming == [sc |-> sc, chat |-> chat]

CommitStream(k, name) ==
    /\ sc' = [k.sc EXCEPT !.op = name]
    /\ chat' = k.chat
    /\ UNCHANGED <<authVars, clientVars, nm, ps>>

Batches == UNION {[1..n -> Records] : n \in 1..ReadSize}

Started == 1..sc.n

\* a caller invokes client.streamChatResponse with callbacks of its own
StreamChatResponseCall ==
    /\ sc.n < MaxStreams
    /\ CommitStream(scStreamChatResponse(Streaming, "plain", 0),
                    "streamChatResponse")

\* a caller invokes client.stopStreaming()
StopStreamingCall ==
    /\ sc.n > 0
    /\ CommitStream(scStopStreaming(Streaming), "stopStreaming")

\* fetch resolves with a 2xx response, lines 259-275
FetchOk ==
    \E id \in Started :
       /\ sc.streams[id].pc = "fetch"
       /\ CommitStream([cbConnectionChange(Streaming, id, "connected")
                           EXCEPT !.sc.streams[id].pc = "read"],
                       "fetchOk")

\* fetch rejects, or resolves with a response that is not ok (line 259)
FetchReject ==
    \E id \in Started, err \in StreamErrors :
       /\ sc.streams[id].pc = "fetch"
       /\ CommitStream(scCatch(Streaming, id, err), err)

\* reader.read() resolves with bytes that complete some lines, 277-315
ReadRecords ==
    \E id \in Started, lines \in Batches :
       /\ sc.streams[id].pc = "read"
       /\ sc.recs + Len(lines) <= MaxRecs
       /\ CommitStream(
             processLines([Streaming EXCEPT
                              !.sc.recs = @ + Len(lines),
                              !.sc.streams[id].hist = @ \o lines],
                          id, lines),
             "read")

\* reader.read() resolves with done: the loop ends, line 317 completes
ReadEnd ==
    \E id \in Started :
       /\ sc.streams[id].pc = "read"
       /\ CommitStream(scFinally(cbComplete(Streaming, id), id),
                       "readEnd")

\* reader.read() rejects: the connection broke
ReadFail ==
    \E id \in Started :
       /\ sc.streams[id].pc = "read"
       /\ CommitStream(scCatch(Streaming, id, "network"), "readFail")

\* the await of an aborted stream rejects with the AbortError
AbortSettle ==
    \E id \in Started :
       /\ sc.streams[id].pc = "aborted"
       /\ CommitStream(scCatch(Streaming, id, "AbortError"),
                       "abortSettle")

\* a caller's first streamChatResponse on a new client
StreamFirst ==
    /\ sc.n = 0
    /\ CommitStream(scStreamChatResponse(Streaming, "plain", 0),
                    "streamChatResponse")

Settle == FetchOk \/ FetchReject \/ ReadEnd \/ ReadFail \/ AbortSettle

Transport == Settle \/ ReadRecords

InitStream ==
    /\ InitClient /\ access = NULL /\ refresh = NULL
    /\ eh = EhIdle /\ rh = RhIdle(DEFAULT_RETRY_CONFIG, "always")
    /\ api = ApiIdle /\ sc = ScIdle /\ chat = ChatIdle
    /\ nm = NmIdle /\ ps = PsIdle

\* one stream and the records of its body
NextSse == StreamFirst \/ StopStreamingCall \/ Transport

\* every request is answered, every body ends
SpecSse == InitStream /\ [][NextSse]_vars /\ WF_vars(Transport)

\* streams started and stopped by callers of one client, bodies left aside
NextStream == StreamChatResponseCall \/ StopStreamingCall \/ Settle

SpecStream == InitStream /\ [][NextStream]_vars /\ WF_vars(Settle)

\* ---------------------------------------- chat store with its client
\* sendMessage(message) with a non-empty message, lines 101-159; it throws
\* before any change while streaming or while the network is reported
\* offline
SendMessageCall ==
    /\ chat.turns < MaxTurns /\ sc.n < MaxAttempts
    /\ ~chat.isStreaming
    /\ chat.networkStatus # "offline"
    /\ CommitStream(sendMessage(Streaming), "sendMessage")

\* the store's stopStreaming()
StoreStopStreamingCall ==
    /\ chat.turns > 0
    /\ CommitStream(storeStopStreaming(Streaming), "stopStreaming")

\* a retry timer set at line 209 fires
RetryTimerFire ==
    \E turn \in 1..MaxTurns :
       /\ chat.timers[turn] > 0 /\ sc.n < MaxAttempts
       /\ CommitStream(
             storeStreamChatResponse(
                 [Streaming EXCEPT !.chat.timers[turn] = @ - 1], turn),
             "retry")

\* initializeNetworkMonitoring(), lines 436-454
InitializeNetworkMonitoring ==
    /\ chat.networkStatus = NULL
    /\ \E status \in {"online", "offline"} :
          CommitStream([Streaming EXCEPT !.chat.networkStatus = status],
                       "initializeNetworkMonitoring")

\* the window's offline event, part_006 lines 110-113
OfflineEvent ==
    /\ chat.networkStatus # NULL
    /\ CommitStream(onOffline(updateStatus(Streaming, "offline")),
                    "offline")

\* the window's online event, part_006 lines 105-108
OnlineEvent ==
    /\ chat.networkStatus # NULL
    /\ CommitStream(onOnline(updateStatus(Streaming, "online")),
                    "online")

\* the monitor's ping settles, part_006 lines 142-162
PingSettle ==
    /\ chat.networkStatus # NULL
    /\ \E status \in {"online", "offline"} :
          /\ status # chat.networkStatus
          /\ CommitStream(updateStatus(Streaming, status), "ping")

\* the first sendMessage on a new store
SendMessageFirst ==
    /\ chat.turns = 0
    /\ CommitStream(sendMessage(Streaming), "sendMessage")

\* one turn of the store and the records of its body, retries left aside
NextMessage == SendMessageFirst \/ StoreStopStreamingCall \/ Transport

SpecMessage == InitStream /\ [][NextMessage]_vars /\ WF_vars(Transport)

\* turns of the store with retries and the network monitor, bodies left
\* aside
NextChat ==
    \/ SendMessageCall \/ StoreStopStreamingCall \/ RetryTimerFire
    \/ InitializeNetworkMonitoring \/ OfflineEvent \/ OnlineEvent
    \/ PingSettle \/ Settle

SpecChat == InitStream /\ [][NextChat]_vars

\* ------------------------------------------------------------------ claims
InFlightRefresh == InFlight(net, "refresh")

TimerArmedAt(at) ==
    \E t \in armed : t.id = refreshTimer /\ t.at = at

\* C1: while a refresh exchange issued by refreshToken() awaits the server,
\* further refreshToken() calls issue none: at most one exchange is in
\* flight, and a call that returns at the isRefreshing guard issued no
\* exchange and leaves exactly the one it joined in flight.
C1_SingleExchange ==
    /\ InFlightRefresh <= 1
    /\ (ev.act = "refreshToken" /\ ev.res = "resolved")
          => (ev.exch = 0 /\ InFlightRefresh = 1)
    /\ (ev.act = "refreshToken" /\ ev.res = "pending") => ev.exch = 1

C1_Witness ==
    /\ ev.act = "refreshToken" /\ ev.res = "resolved"
    /\ calls >= 3
    /\ InFlightRefresh = 1

\* C2: a caller of refreshToken() that finds a refresh in flight waits for
\* it: it does not resolve while that exchange still awaits the server.
C2_WaitersShareOutcome ==
    ~(ev.act = "refreshToken" /\ ev.res = "resolved"
        /\ InFlightRefresh > 0)

\* C3: when logout() completes, both storage entries are absent and the
\* store is unauthenticated, whatever the server-side logout call returned.
C3_LogoutClears ==
    ev.act = "LogoutDone" =>
        /\ access = NULL /\ refresh = NULL
        /\ user = NULL /\ tokens = NoTokens
        /\ ~isAuthenticated /\ ~isRefreshing /\ refreshTimer = NoTimer

C3_Witness ==
    /\ ev.act = "LogoutDone" /\ ev.op = "logout" /\ ~ev.ok
    /\ ev.hadA /\ ev.hadR

\* C4: when refreshToken() rejects because the exchange failed, no access
\* token and no refresh token is stored at that moment.
C4_ClearedAtRejection ==
    (ev.act = "RefreshFail" /\ ev.op = "refreshToken"
        /\ ev.res = "rejected")
    => (access = NULL /\ refresh = NULL)

NewPair == [access |-> ev.tok,
            refresh |-> IF ev.rtok # NULL THEN ev.rtok ELSE ev.sent]

C7_OneTimer == Cardinality(armed) <= 1

LoggedInLate ==
    /\ ev.act = "LoginOk"
    /\ Decodable(access) /\ ExpOf(access) - now > LookAhead

TimerRefreshIssued ==
    /\ ev.act = "TimerFire" /\ ev.exch = 1
    /\ now >= ExpOf(access) - LookAhead

\* C8: after a login whose access token expires later than the look-ahead
\* window, and with no caller action, the timer callback eventually issues
\* a refresh exchange, not before expiry minus the window; when an
\* exchange succeeds getAccessToken() returns the new access token.
C8_ProactiveRefresh ==
    /\ LoggedInLate ~> TimerRefreshIssued
    /\ [](ev.act = "TimerFire" =>
            (access # NULL /\ now >= ExpOf(access) - LookAhead))
    /\ [](ev.act = "RefreshOk" => access = ev.tok)

C8_Witness ==
    /\ TimerRefreshIssued /\ isAuthenticated /\ calls = 1
    /\ now > 0 /\ refresh = tokens.refresh /\ access = tokens.access

\* C9: checkAuth() called with no token pair stored ends at once with
\* isAuthenticated and isLoading false and issues no network call.
C9_NoTokensNoNetwork ==
    (ev.act = "checkAuth" /\ ~(ev.hadA /\ ev.hadR)) =>
        /\ ev.res = "resolved"
        /\ ~isAuthenticated /\ ~isLoading
        /\ ev.reqs = 0 /\ ev.exch = 0 /\ ev.lo = 0

C9_Witness ==
    /\ ev.act = "checkAuth" /\ ~ev.hadA /\ ev.hadR
    /\ ev.res = "resolved" /\ calls >= 2

\* C10: a checkAuth() invocation that found the stored access token expired
\* attempts one refresh, and when that refresh fails it ends with
\* isAuthenticated and isLoading false.
C10_OneRefresh ==
    (ev.op = "checkAuth" /\ ev.expired) =>
        /\ ev.att = 1
        /\ (ev.act = "RefreshFail" => (~isAuthenticated /\ ~isLoading))

\* C11: isAuthenticated is never true while no tokens are stored: not in
\* the store's tokens field and not in either storage entry.
C11_AuthenticatedHasTokens ==
    ~(isAuthenticated /\ tokens = NoTokens
        /\ access = NULL /\ refresh = NULL)

\* C12: isTokenExpired() returns true when the stored access token's expiry
\* is in the past, false when it is in the future, and true whenever no
\* expiry can be read (token absent, undecodable, or without a usable exp
\* claim).
C12_FailClosed ==
    ev.act = "isTokenExpired" =>
        IF access # NULL /\ Decodable(access) /\ HasExp(access)
        THEN /\ ExpOf(access) < now => ev.res = "true"
             /\ ExpOf(access) > now => ev.res = "false"
        ELSE ev.res = "true"

RawDelay == rh.cfg.baseDelay * Pow(rh.cfg.backoffFactor, rh.attempt)

\* C13: with shouldRetry always true and every attempt failing, execute()
\* runs the operation maxRetries + 1 times, never more, then throws the
\* error of the last attempt; an attempt under way always leads to
\* execute() ending.
C13_AlwaysFailing ==
    /\ []((rh.pc = "thrown" /\ rh.policy = "always") =>
            /\ rh.runs = rh.cfg.maxRetries + 1
            /\ rh.thrown = rh.lastError
            /\ rh.thrown.n = rh.cfg.maxRetries)
    /\ [](rh.policy = "always" => rh.runs <= rh.cfg.maxRetries + 1)
    /\ (rh.pc = "awaiting" ~> rh.pc \in {"returned", "thrown"})

C13_Witness ==
    /\ rh.pc = "thrown" /\ rh.policy = "always"
    /\ rh.cfg.maxRetries >= 2 /\ rh.runs = rh.cfg.maxRetries + 1
    /\ rh.sleeps = rh.cfg.maxRetries

\* C14 as stated: the delay slept after failed attempt n lies within
\* [baseDelay * backoffFactor^n, baseDelay * backoffFactor^n + 1000] and
\* is not greater than maxDelay.
C14_Original ==
    rh.pc = "sleeping" =>
        /\ RawDelay <= rh.slept /\ rh.slept <= RawDelay + 1000
        /\ rh.slept <= rh.cfg.maxDelay

\* C14 amended: the delay lies within [d, d + 1000) where d is the smaller
\* of baseDelay * backoffFactor^n and maxDelay.
C14_CappedThenJittered ==
    rh.pc = "sleeping" =>
        LET d == IF RawDelay <= rh.cfg.maxDelay THEN RawDelay
                 ELSE rh.cfg.maxDelay
        IN  d <= rh.slept /\ rh.slept < d + 1000

C14_Witness ==
    /\ rh.pc = "sleeping" /\ rh.attempt >= 1
    /\ RawDelay > rh.cfg.maxDelay /\ rh.slept > rh.cfg.maxDelay

\* C15: once an attempt succeeded, or failed with an error shouldRetry
\* refuses, execute() has ended with that attempt's result or error, no
\* sleep followed and the operation was not run again.
C15_StopsAtFirst ==
    rh.stopRuns > 0 =>
        /\ rh.pc \in {"returned", "thrown"}
        /\ rh.runs = rh.stopRuns /\ rh.runs = rh.attempt + 1
        /\ rh.sleeps = rh.attempt
        /\ rh.pc = "returned" => rh.result = rh.attempt
        /\ rh.pc = "thrown" =>
              (rh.thrown = rh.lastError /\ rh.thrown.n = rh.attempt)

C15_Witness ==
    /\ rh.pc = "thrown" /\ rh.policy = "isRetryableError"
    /\ rh.attempt >= 1 /\ rh.attempt < rh.cfg.maxRetries
    /\ ~isRetryableError(rh.thrown.err)

\* C19: createError puts every failure in one class (no response:
\* NetworkError, retryable; 401: AuthError requiring login; 403: AuthError
\* not requiring login; 400: ValidationError with the response's field;
\* otherwise ApiError with the response's code or HTTP_<status>), and
\* isRetryableError is false for the AuthErrors and ValidationErrors.
C19_Classification ==
    eh.out # NoError =>
        LET e == eh.in
            o == eh.out
            generic == ~o.isNetworkError /\ ~o.isAuthError
                          /\ ~o.isValidationError
        IN  /\ ~e.response =>
                  (o.isNetworkError /\ o.retryable /\ ~o.isAuthError
                     /\ ~o.isValidationError /\ o.code = NULL)
            /\ (e.response /\ e.status \in {401, 403}) =>
                  (o.isAuthError /\ o.requiresLogin = (e.status = 401)
                     /\ ~o.isNetworkError /\ ~o.isValidationError
                     /\ o.code = NULL)
            /\ (e.response /\ e.status = 400) =>
                  (o.isValidationError /\ o.field = e.field
                     /\ ~o.isNetworkError /\ ~o.isAuthError
                     /\ o.code = NULL)
            /\ (e.response /\ e.status \notin {400, 401, 403}) =>
                  (generic /\ o.code = IF e.code # NULL THEN e.code
                                       ELSE HttpCode(e.status))
            /\ ((o.isAuthError \/ o.isValidationError)
                   /\ eh.asked # "none") => eh.asked = "false"

C19_Witness ==
    /\ eh.out.isValidationError /\ eh.out.field = "email"
    /\ eh.asked = "false"

SentNow == api.step \in {"send", "resend", "refreshOk"}

\* C16: a 401 on a call not marked as retried marks it and starts one
\* refresh; when the refresh succeeds the call is replayed once with the
\* new access token; a 401 on the replay starts no refresh and no replay.
C16_OneRefreshOneReplay ==
    /\ api.attRefreshes <= 1 /\ api.attReplays <= 1
    /\ api.step = "refreshStart" =>
          (api.retry /\ api.pc = "refresh" /\ api.attRefreshes = 1
             /\ api.attReplays = 0)
    /\ api.step = "refreshOk" =>
          (api.pc = "replay" /\ api.attReplays = 1
             /\ api.hdr = api.newTok /\ access = api.newTok)
    /\ (api.step = "fail" /\ api.retry) =>
          (api.pc \in {"done", "waiting"} /\ api.attRefreshes = 1
             /\ api.attReplays = 1)

C16_Witness ==
    /\ api.step = "fail" /\ api.retry /\ api.failed.status = 401
    /\ api.attReplays = 1 /\ api.pc = "done"

\* C17: an attempt that failed with no response or with a 5xx response is
\* attempted again while fewer than maxRetries retries were made; one that
\* failed with a 4xx response is not attempted again.
C17_RetryableClasses ==
    (api.via /\ api.step = "fail") =>
        /\ ((~api.failed.response \/ api.failed.status >= 500)
               /\ rh.attempt < rh.cfg.maxRetries) => api.pc = "waiting"
        /\ (api.failed.response /\ api.failed.status < 500)
               => api.pc = "done"

\* C18: a request to the login or the refresh endpoint carries no
\* Authorization header; any other request carries the stored access
\* token when there is one.
C18_HeaderByEndpoint ==
    SentNow =>
        IF api.url \in {"login", "refresh"} THEN api.hdr = NULL
        ELSE api.hdr = access

\* C20: once the refresh triggered by a 401 failed, request() has ended
\* with a failure, the stored tokens are cleared, the redirect to /login
\* was made, and neither a refresh nor the call is sent again.
C20_SessionTerminated ==
    api.refreshFailed =>
        /\ api.pc = "done" /\ api.error # NoError
        /\ access = NULL /\ refresh = NULL /\ api.redirected
        /\ api.sends = api.sendsAtFail
        /\ api.refreshes = api.refreshesAtFail

\* ----------------------------------------------------- stream parsers, alone
parserRest == <<authVars, clientVars, sc, chat, nm>>

\* `await reader.read()` resolves with the next result
ParserRead ==
    /\ ps.pc = "reading" /\ ps.reads # <<>>
    /\ ps' = [psRead(ps, Head(ps.reads)) EXCEPT !.reads = Tail(ps.reads)]
    /\ UNCHANGED parserRest

\* `await reader.read()` resolves with done
ParserDone ==
    /\ ps.pc = "reading" /\ ps.reads = <<>>
    /\ ps' = psDone(ps)
    /\ UNCHANGED parserRest

InitParser ==
    /\ InitClient /\ access = NULL /\ refresh = NULL
    /\ eh = EhIdle /\ rh = RhIdle(DEFAULT_RETRY_CONFIG, "always")
    /\ api = ApiIdle /\ sc = ScIdle /\ chat = ChatIdle /\ nm = NmIdle
    /\ \E which \in {"sse", "chat"}, b \in Bodies \ {<<>>} :
          \E C \in SUBSET (1..(Len(b) - 1)) :
             /\ Cardinality(C) <= MaxCuts
             /\ ps = psStart(which, b, C)

NextParser == ParserRead \/ ParserDone

SpecParser == InitParser /\ [][NextParser]_vars

\* --------------------------------------------------- NetworkMonitor, alone
monitorRest == <<authVars, clientVars, sc, chat, ps>>

\* handleOnline, part_006 lines 105-108
HandleOnline ==
    /\ nm' = [nmUpdateStatus(NmBase, [isOnline |-> TRUE])
                 EXCEPT !.hook = "onOnline"]
    /\ UNCHANGED monitorRest

\* handleOffline, lines 110-113
HandleOffline ==
    /\ nm' = [nmUpdateStatus(NmBase, [isOnline |-> FALSE])
                 EXCEPT !.hook = "onOffline"]
    /\ UNCHANGED monitorRest

\* handleConnectionChange, lines 115-118
HandleConnectionChange ==
    /\ \E st \in NetStatuses : nm' = nmUpdateStatus(NmBase, st)
    /\ UNCHANGED monitorRest

\* the setInterval callback up to `await fetch(...)`, lines 141-148
PingTick ==
    /\ nm.pings < MaxPings
    /\ nm' = [NmBase EXCEPT !.pings = @ + 1]
    /\ UNCHANGED monitorRest

\* the probe's fetch settles, lines 150-160
PingRespond ==
    /\ nm.pings > 0
    /\ LET m == [NmBase EXCEPT !.pings = @ - 1] IN
       \/ \E ok \in BOOLEAN, rtt \in Rtts :
             nm' = nmUpdateStatus(m,
                [isOnline |-> ok, rtt |-> MinRtt(rtt, m.status.rtt)])
       \/ nm' = nmUpdateStatus(m, [isOnline |-> FALSE])
    /\ UNCHANGED monitorRest

\* addListener(listener), lines 165-167: a Set, so adding twice adds once
AddListener ==
    /\ \E l \in 1..MaxListeners :
          nm' = [NmBase EXCEPT !.listeners =
                    IF \E i \in 1..Len(@) : @[i] = l THEN @
                    ELSE Append(@, l)]
    /\ UNCHANGED monitorRest

\* removeListener(listener), lines 169-171
RemoveListener ==
    /\ \E l \in 1..MaxListeners :
          nm' = [NmBase EXCEPT !.listeners = SelectSeq(@, LAMBDA x : x # l)]
    /\ UNCHANGED monitorRest

\* new NetworkMonitor(options), lines 67-77
InitMonitor ==
    /\ InitClient /\ access = NULL /\ refresh = NULL
    /\ eh = EhIdle /\ rh = RhIdle(DEFAULT_RETRY_CONFIG, "always")
    /\ api = ApiIdle /\ sc = ScIdle /\ chat = ChatIdle /\ ps = PsIdle
    /\ \E st \in NetStatuses, cb \in BOOLEAN :
          nm = NmNew(st, cb)

NextMonitor ==
    \/ HandleOnline \/ HandleOffline \/ HandleConnectionChange
    \/ PingTick \/ PingRespond \/ AddListener \/ RemoveListener

SpecMonitor == InitMonitor /\ [][NextMonitor]_vars

\* --------------------------------------------- claims on chat streaming
\* a stream that is neither aborted nor terminated
Active(id) == sc.streams[id].pc \in {"fetch", "read"}

\* C21: a client never has more than one active stream: every stream
\* started before the most recent streamChatResponse call has been aborted
\* or has terminated.
C21_OneActiveStream ==
    /\ \A id \in 1..(sc.n - 1) : ~Active(id)
    /\ Cardinality({id \in Started : Active(id)}) <= 1

\* the contents of the first n records of a body, in arrival order
ContentsOf(h, n) == [j \in 1..n |-> ContentOf(h[j])]

\* record i of the body h is the first that is no chunk
FirstNonChunk(h, i) ==
    /\ i \in 1..Len(h)
    /\ h[i] \notin {"chunkA", "chunkB"}
    /\ \A j \in 1..(i - 1) : h[j] \in {"chunkA", "chunkB"}

\* C22: a stream that delivers chunks and then the [DONE] sentinel (chunk
\* "A", chunk "B", [DONE] among them) has accumulated the chunks' contents
\* in arrival order ("AB"), has signalled completion exactly once and no
\* error, and has ended: what the body holds after the sentinel is not
\* processed.
C22_ChunksThenDone ==
    \A id \in Started :
       LET s == sc.streams[id]
       IN  \A i \in 1..Len(s.hist) :
              FirstNonChunk(s.hist, i) /\ s.hist[i] = "DONE" =>
                 /\ s.fullContent = ContentsOf(s.hist, i - 1)
                 /\ s.completes = 1 /\ s.errors = 0
                 /\ s.pc = "closed"

\* the turn's stream delivered A, B, [DONE]: the assistant message of the
\* turn reads "AB" and the store is idle
C22_Witness ==
    \E id \in Started :
       /\ sc.streams[id].cb = "store"
       /\ sc.streams[id].hist = <<"chunkA", "chunkB", "DONE">>
       /\ sc.streams[id].fullContent = <<"A", "B">>
       /\ sc.streams[id].completes = 1
       /\ chat.msgs[sc.streams[id].req] = <<"A", "B">>
       /\ ~chat.isStreaming /\ chat.streamingMessage = 0

\* the records of h are all unparsable
AllMalformed(h) == \A j \in 1..Len(h) : h[j] = "malformed"

\* C23: a record that cannot be parsed is skipped: a read that delivers
\* only such records changes nothing of the stream (no callback, no end),
\* and a stream that delivers unparsable records and then a complete
\* record ends normally with the complete record's content and exactly one
\* completion signal.
C23_MalformedSkipped ==
    /\ [](\A id \in Started :
            LET s == sc.streams[id]
            IN  \A i \in 1..Len(s.hist) :
                   /\ s.hist[i] = "complete"
                   /\ AllMalformed(SubSeq(s.hist, 1, i - 1))
                   => /\ s.fullContent = <<"C">>
                      /\ s.completes = 1 /\ s.errors = 0
                      /\ s.pc = "closed")
    /\ [][\A id \in Started :
            LET h == sc.streams[id].hist
                more == SubSeq(sc'.streams[id].hist, Len(h) + 1,
                               Len(sc'.streams[id].hist))
            IN  more # <<>> /\ AllMalformed(more) =>
                   sc'.streams[id] =
                      [sc.streams[id] EXCEPT !.hist = @ \o more]]_vars

\* a turn whose body is an unparsable record and then a complete record
C23_Witness ==
    \E id \in Started :
       /\ sc.streams[id].cb = "store"
       /\ sc.streams[id].hist = <<"malformed", "complete">>
       /\ sc.streams[id].fullContent = <<"C">>
       /\ sc.streams[id].completes = 1 /\ sc.streams[id].errors = 0
       /\ chat.msgs[sc.streams[id].req] = <<"C">>
       /\ ~chat.isStreaming

\* C24: a stream whose first record that is no chunk is of type error has
\* delivered it to onError and has ended: one onError, no onComplete, the
\* content of the chunks before it, and nothing processed after it.
C24_ErrorRecordEnds ==
    \A id \in Started :
       LET s == sc.streams[id]
       IN  \A i \in 1..Len(s.hist) :
              FirstNonChunk(s.hist, i) /\ s.hist[i] = "error" =>
                 /\ s.errors = 1 /\ s.completes = 0
                 /\ s.pc = "closed"
                 /\ s.fullContent = ContentsOf(s.hist, i - 1)

\* C25: every stream started terminates, and in exactly one of three ways:
\* one onComplete, one onError, or a stop with neither callback; no
\* callback of the two is invoked before the stream ends, never both and
\* never one twice.
C25_OneOutcome ==
    /\ [](\A id \in Started :
            LET s == sc.streams[id]
            IN  /\ s.completes + s.errors <= 1
                /\ s.pc # "closed" => s.completes + s.errors = 0
                /\ s.pc = "closed" =>
                      IF s.aborted THEN s.completes + s.errors = 0
                      ELSE s.completes + s.errors = 1)
    /\ \A id \in 1..MaxStreams :
          (id <= sc.n) ~> (id <= sc.n /\ sc.streams[id].pc = "closed")

\* a stream stopped after it delivered content: ended with neither callback
C25_Witness ==
    \E id \in Started :
       /\ sc.streams[id].pc = "closed" /\ sc.streams[id].aborted
       /\ sc.streams[id].fullContent # <<>>
       /\ sc.streams[id].completes = 0 /\ sc.streams[id].errors = 0

\* C26: stopStreaming() while a stream is active ends that stream without
\* onError and leaves the client idle (right after the call no stream is
\* active and the client holds no controller), and a streamChatResponse
\* call starts a stream whose accumulated content is empty.
C26_StopEndsStream ==
    /\ sc.op = "stopStreaming" =>
          /\ \A id \in Started :
                /\ ~Active(id)
                /\ sc.streams[id].aborted => sc.streams[id].errors = 0
          /\ sc.abortController = 0
    /\ sc.op = "streamChatResponse" =>
          /\ sc.streams[sc.n].pc = "fetch"
          /\ sc.streams[sc.n].fullContent = <<>>

\* the callbacks' invocations so far, per stream
Invocations(k) ==
    [id \in 1..k.sc.n |->
        <<k.sc.streams[id].completes, k.sc.streams[id].errors,
          k.sc.streams[id].fullContent>>]

\* C27: stopStreaming() is idempotent, on the client and on the chat store:
\* in every state, calling it twice gives the state calling it once gives,
\* calling it with no stream active changes nothing on the client and
\* nothing on a store already stopped, and no call invokes a callback.
C27_StopIdempotent ==
    LET once == storeStopStreaming(Streaming)
        clientOnce == scStopStreaming(Streaming)
    IN  /\ storeStopStreaming(once) = once
        /\ scStopStreaming(clientOnce) = clientOnce
        /\ sc.abortController = 0 => clientOnce = Streaming
        /\ sc.op = "stopStreaming" => once = Streaming
        /\ Invocations(once) = Invocations(Streaming)
        /\ Invocations(clientOnce) = Invocations(Streaming)

\* stopStreaming() of the store was just called on a turn whose stream was
\* active: the stream is aborted and its await has not settled yet
C27_Witness ==
    /\ sc.op = "stopStreaming"
    /\ \E id \in Started : sc.streams[id].pc = "aborted"
    /\ ~chat.isStreaming /\ chat.turns > 0

\* the retries made so far for a turn: its streams but the first
RetriesMade(t) == chat.attempts[t] - 1

\* C28: when a stream attempt of a turn fails, the store schedules a retry
\* of the turn if and only if the network is not reported offline and fewer
\* than maxRetryAttempts retries have been made for the turn; otherwise it
\* records a streaming error and is idle.  A turn makes at most
\* maxRetryAttempts + 1 attempts.
C28_BoundedRetry ==
    /\ [](\A t \in 1..MaxTurns :
             chat.attempts[t] <= chat.maxRetryAttempts + 1)
    /\ [][\A id \in Started :
            sc'.streams[id].errors = sc.streams[id].errors + 1 =>
               LET t == sc.streams[id].req
               IN  IF /\ chat.networkStatus # "offline"
                      /\ RetriesMade(t) < chat.maxRetryAttempts
                   THEN chat'.timers[t] = chat.timers[t] + 1
                   ELSE /\ chat'.timers = chat.timers
                        /\ chat'.error # NULL
                        /\ ~chat'.isStreaming
                        /\ chat'.streamingMessage = 0]_vars

\* what a server's rejection of the request fails the stream with
Rejections == {"http400", "http401", "http403"}

\* C29: when the stream request of a turn is rejected with 401, 403 or
\* 400, the turn is ended at once with a terminal error: the store is idle
\* with the error recorded and no retry is scheduled.
C29_RejectionIsTerminal ==
    [][\A id \in Started :
          /\ sc'.streams[id].errors = sc.streams[id].errors + 1
          /\ sc'.op \in Rejections
          => /\ chat'.timers = chat.timers
             /\ chat'.retryAttempts = chat.retryAttempts
             /\ chat'.error = sc'.op
             /\ ~chat'.isStreaming /\ chat'.streamingMessage = 0]_vars

\* C30: once the network went offline while a turn was streaming, and as
\* long as it stays offline and no new turn is sent, the store is idle
\* with the connectivity-lost error, and no step invokes onError or
\* schedules a retry.
C30_OfflineEndsTurn ==
    /\ [](chat.lost =>
             /\ ~chat.isStreaming /\ chat.streamingMessage = 0
             /\ chat.error \in NetworkErrors)
    /\ [][chat'.lost =>
             /\ \A id \in Started :
                   sc'.streams[id].errors = sc.streams[id].errors
             /\ \A t \in 1..MaxTurns : chat'.timers[t] <= chat.timers[t]]_vars

\* --------------------------------------------- claims on the whole client
\* C33: when a stream's failure is terminal (onError does not retry), the
\* store observed once the stream call has returned has the failure
\* message as error, isStreaming false, streamingMessage null and
\* connectionStatus error.
C33_TerminalErrorState ==
    [][\A id \in Started :
          /\ sc'.streams[id].errors = sc.streams[id].errors + 1
          /\ ~shouldRetryTurn(chat)
          => /\ chat'.error # NULL
             /\ ~chat'.isStreaming /\ chat'.streamingMessage = 0
             /\ chat'.connectionStatus = "error"]_vars

\* C35: a transport attempt is started for a turn only while the turn is
\* the one streaming: after stopStreaming() ended the turn, in a retry
\* backoff included, no attempt is started for it.
C35_NoAttemptAfterStop ==
    [][\A t \in 1..MaxTurns :
          chat'.attempts[t] = chat.attempts[t] + 1 =>
             /\ chat.streamingMessage = t \/ chat.turns < t
             /\ chat'.isStreaming /\ chat'.streamingMessage = t]_vars

\* C36: while a stream is in flight (started, not aborted, not settled),
\* the client's controller is that stream's: isStreaming() returns true
\* and stopStreaming() aborts it.
C36_InFlightIsStoppable ==
    \A id \in Started :
       Active(id) /\ ~sc.streams[id].aborted => sc.abortController = id

\* C37: once the turn has terminated (no stream is in progress for the
\* store), no message of the conversation is marked isStreaming.
C37_NoMessageLeftStreaming ==
    ~chat.isStreaming /\ chat.streamingMessage = 0 => chat.msgStreaming = {}

\* C32: a proactive refresh (from the timer, or issued at once by
\* scheduleTokenRefresh) that fails runs logout() exactly once: one
\* AuthService.logout call and one redirect.
C32_OneForcedLogout ==
    ev.op = "proactive" /\ ev.res = "rejected" =>
        ev.lo = 1 /\ InFlight(net, "logout") = 1

\* C34: after logout() was called while a refreshToken() exchange was in
\* flight and both have finished, no access or refresh token is stored, the
\* store's tokens are null and no proactive-refresh timer is armed.
C34_LogoutWinsRace ==
    calls = 2 /\ net = EmptyBag =>
        /\ access = NULL /\ refresh = NULL
        /\ tokens = NoTokens /\ armed = {}

\* C38: request(url, {retries: k}) invokes the underlying call at most
\* k + 1 times.
C38_RetriesOptionBounds ==
    api.pc # "idle" =>
        (IF api.via THEN rh.runs ELSE 1) <= api.retries + 1

\* C39: across the store's refreshToken(), the ApiClient's 401 interceptor
\* and AuthMiddleware.refreshToken(), at most one refresh exchange is in
\* flight at any time.
C39_OneRefreshInFlight ==
    InFlight(net, "refresh") + InFlight(net, "mwrefresh")
       + (IF api.pc = "refresh" THEN 1 ELSE 0) <= 1

\* number of times callee c was notified by the last step
Notified(c) == Cardinality({i \in 1..Len(nm.notes) : nm.notes[i] = c})

\* C31: an event or probe that leaves every status field equal notifies
\* nobody; one that changes a field notifies onStatusChange (when given) and
\* every registered listener exactly once, and nobody else.
C31_NotifyOnChangeOnly ==
    /\ nm.old = nm.status => nm.notes = <<>>
    /\ nm.old # nm.status =>
          /\ Notified(0) = (IF nm.hasCb THEN 1 ELSE 0)
          /\ \A l \in 1..MaxListeners :
                Notified(l) =
                   (IF \E i \in 1..Len(nm.listeners) : nm.listeners[i] = l
                    THEN 1 ELSE 0)

\* an update changed the status but not isOnline, with two listeners and
\* onStatusChange registered
C31_Witness ==
    /\ nm.old # nm.status /\ nm.old.isOnline = nm.status.isOnline
    /\ nm.hasCb /\ Len(nm.listeners) = 2 /\ nm.hook = "none"
    /\ nm.notes = <<0>> \o nm.listeners

\* the events of body b read in one piece
Uncut(which, b) == psDone(psRead(psStart(which, b, {}), b)).events

\* C40: the events a parser has produced when it ends are those of the same
\* bytes read in one piece, however the body was cut into read() results;
\* while it runs they are a prefix of them.
C40_CutIndependent ==
    /\ ps.pc \in {"closed", "returned"} =>
          ps.events = Uncut(ps.which, ps.body)
    /\ ps.pc = "reading" =>
          /\ Len(ps.events) <= Len(Uncut(ps.which, ps.body))
          /\ ps.events =
                SubSeq(Uncut(ps.which, ps.body), 1, Len(ps.events))

\* a body cut inside a record and inside a character, whose last record
\* has no newline, was read to the end and produced a chunk
C40_Witness ==
    /\ ps.pc = "closed" /\ ps.body[Len(ps.body)] # "n"
    /\ \E c \in ps.cuts : ps.body[c] = "c1"
    /\ \E c \in ps.cuts : ps.body[c] = "d"
    /\ \E i \in 1..Len(ps.events) : ps.events[i] \in {"chunk", "yield"}

====
